---- MODULE Spec2Model ----
(***************************************************************************)
(* Verification model of the analytics core of intervals-mcp-server:       *)
(* baselines, metric calculators, phase detection, alert generation and    *)
(* the snapshot / history builders.                                        *)
(*                                                                         *)
(* Numbers.  The Python code computes with floats.  The model computes     *)
(* with exact rationals <<n, d>> (d > 0) over integer inputs.  For the     *)
(* bounded integer inputs used here a quotient a/c differs from every      *)
(* threshold literal of the code by far more than one ulp unless it is     *)
(* exactly equal to it, and a correctly rounded quotient that is exactly   *)
(* equal to a decimal literal is the same double as that literal, so the   *)
(* float comparisons of the code and the exact comparisons of the model    *)
(* agree.                                                                  *)
(*                                                                         *)
(* Dates.  The code compares ISO YYYY-MM-DD strings lexicographically;     *)
(* the model uses day numbers, whose integer order is that order.          *)
(*                                                                         *)
(* Optional values.  A Python value that may be None, or a dict key that   *)
(* may be missing, is a tagged record: Absent (key not in the dict),       *)
(* None (key present, value None) or Num(n).                               *)
(***************************************************************************)
EXTENDS Integers, Sequences, FiniteSets, TLC

VARIABLES
    pc,             \* control point of the operation under analysis
    phase_args,     \* arguments of detect_training_phase
    phase_ret,      \* its return value
    metrics,        \* argument of generate_alerts: the metrics map
    alerts,         \* its return value: the list of alert dicts
    filter_args,    \* arguments of filter_outliers
    filtered,       \* its return value
    baseline_args,  \* arguments of calculate_baseline
    baseline,       \* its return value
    source,            \* what the Intervals.icu endpoints hold at build time
    activities_result, \* result of the activities fetch
    wellness_result,   \* result of the wellness fetch
    events_result,     \* result of the events fetch
    snapshot,          \* what build_latest_snapshot returns or raises
    durability_args,   \* arguments of calculate_aggregate_durability
    durability_ret,    \* its return value
    tid_args,          \* arguments of detect_tid_drift
    tid_ret,           \* its return value
    tier_args,         \* arguments of build_daily_tier and the day it runs
    tier_ret,          \* the list it returns, or the exception it raises
    builds,            \* the builds in progress: each coroutine's local variables
    interleaved,       \* whether a build has fetched while another was suspended
    calculator_call,   \* a call of one of the ratio calculators: name and arguments
    calculator_ret,    \* its return value, or the exception it raises
    decoupling_args,   \* arguments of calculate_decoupling: the two streams
    decoupling_ret,    \* the tuple it returns
    history_call,      \* a call of one of the parts of the history: name and arguments
    history_ret,       \* the list it returns
    clock,             \* the day datetime.now() falls on
    history_build      \* a history build in progress: the coroutine's local variables

analytics_vars == <<phase_args, phase_ret, metrics, alerts, filter_args, filtered,
                    baseline_args, baseline>>

snapshot_vars == <<source, activities_result, wellness_result, events_result,
                   snapshot>>

durability_vars == <<durability_args, durability_ret>>
tid_vars == <<tid_args, tid_ret>>

tier_vars == <<tier_args, tier_ret>>

concurrency_vars == <<builds, interleaved>>

totality_vars == <<calculator_call, calculator_ret>>

decoupling_vars == <<decoupling_args, decoupling_ret>>

history_vars == <<history_call, history_ret>>

clock_vars == <<clock, history_build>>

remaining_vars == <<concurrency_vars, totality_vars, decoupling_vars, history_vars,
                    clock_vars>>

calculator_vars == <<durability_vars, tid_vars, tier_vars, remaining_vars>>

vars == <<pc, analytics_vars, snapshot_vars, calculator_vars>>

----------------------------------------------------------------------------
(* Optional values *)

Absent == [t |-> "absent", v |-> 0]
None == [t |-> "none", v |-> 0]
Num(n) == [t |-> "num", v |-> n]

IsNum(x) == x.t = "num"

\* Python truthiness of an optional number: None and 0 are falsy.
Truthy(x) == x.t = "num" /\ x.v # 0

----------------------------------------------------------------------------
(* Exact rationals <<n, d>> with d > 0 *)

Rat(n, d) == IF d > 0 THEN <<n, d>> ELSE <<-n, -d>>
RLt(a, b) == a[1] * b[2] < b[1] * a[2]
RLe(a, b) == a[1] * b[2] <= b[1] * a[2]
RGt(a, b) == RLt(b, a)
RGe(a, b) == RLe(b, a)
REq(a, b) == a[1] * b[2] = b[1] * a[2]
Abs(n) == IF n < 0 THEN -n ELSE n
RAbs(a) == <<Abs(a[1]), a[2]>>
RSub(a, b) == <<a[1] * b[2] - b[1] * a[2], a[2] * b[2]>>
RMul(a, b) == <<a[1] * b[1], a[2] * b[2]>>
\* a / b for b # 0
RDiv(a, b) == Rat(a[1] * b[2], a[2] * b[1])

RECURSIVE GCD(_, _)
GCD(a, b) == IF b = 0 THEN a ELSE GCD(b, a % b)

\* The same rational in lowest terms.
RNorm(a) ==
    LET g == GCD(Abs(a[1]), a[2])
    IN  <<a[1] \div g, a[2] \div g>>

Pow10(k) == IF k = 0 THEN 1 ELSE IF k = 1 THEN 10 ELSE 100

\* Largest r in lo..hi with r * r <= n (lo * lo <= n).
RECURSIVE ISqrtIn(_, _, _)
ISqrtIn(n, lo, hi) ==
    IF lo >= hi THEN lo
    ELSE LET mid == (lo + hi + 1) \div 2
         IN  IF mid * mid <= n THEN ISqrtIn(n, mid, hi) ELSE ISqrtIn(n, lo, mid - 1)

ISqrt(n) == ISqrtIn(n, 0, 40000)

\* Python's n / d on numbers: ZeroDivisionError for d = 0.  The exception is
\* the pair with denominator 0, which is no rational.
ZeroDivisionError == <<1, 0>>
Quotient(n, d) == IF d = 0 THEN ZeroDivisionError ELSE RNorm(Rat(n, d))

\* A non-negative float that is the square root of a rational (a standard
\* deviation, and what is computed from it) is carried as that rational.
Surd(q) == [radicand |-> RNorm(q)]

\* round(sqrt(q), digits): the integer nearest to 10^digits * sqrt(q) is
\* floor((floor(sqrt(4 * 10^(2 digits) * q)) + 1) / 2).
RoundSurd(x, digits) ==
    LET q == x.radicand
        scaled == (4 * Pow10(digits) * Pow10(digits) * q[1]) \div q[2]
    IN  <<(ISqrt(scaled) + 1) \div 2, Pow10(digits)>>

\* Python round(x, digits): the multiple of 10^-digits nearest to x, an exact
\* tie going to the even multiple.  (On a decimal tie that is not a binary
\* fraction Python decides by the double nearest to x; the inputs of the
\* model hold no such value.)
Round(a, digits) ==
    LET num == a[1] * Pow10(digits)
        fl == num \div a[2]
        rem == num % a[2]
    IN  <<IF 2 * rem > a[2] THEN fl + 1
          ELSE IF 2 * rem < a[2] THEN fl
          ELSE IF fl % 2 = 0 THEN fl ELSE fl + 1,
          Pow10(digits)>>

\* Optional rationals and optional strings (same tags as Absent/None/Num).
RAbsent == [t |-> "absent", v |-> <<0, 1>>]
RNone == [t |-> "none", v |-> <<0, 1>>]
RNum(q) == [t |-> "num", v |-> q]
SAbsent == [t |-> "absent", v |-> ""]
SNone == [t |-> "none", v |-> ""]
Str(s) == [t |-> "str", v |-> s]

----------------------------------------------------------------------------
(* analytics/baselines.py *)

RECURSIVE SumSeq(_)
SumSeq(s) == IF s = <<>> THEN 0 ELSE s[1] + SumSeq(Tail(s))

\* sorted(values) for rationals
RECURSIVE InsertRat(_, _)
InsertRat(sorted, a) ==
    IF sorted = <<>> THEN <<a>>
    ELSE IF RLe(sorted[Len(sorted)], a) THEN Append(sorted, a)
    ELSE Append(InsertRat(SubSeq(sorted, 1, Len(sorted) - 1), a), sorted[Len(sorted)])

RECURSIVE SortRat(_)
SortRat(s) ==
    IF s = <<>> THEN <<>>
    ELSE InsertRat(SortRat(SubSeq(s, 1, Len(s) - 1)), s[Len(s)])

\* statistics.median of a non-empty list: the middle element, or the mean of
\* the two middle elements.
Median(s) ==
    LET sorted == SortRat(s)
        n == Len(s)
    IN  IF n % 2 = 1 THEN sorted[(n + 1) \div 2]
        ELSE LET lo == sorted[n \div 2]
                 hi == sorted[n \div 2 + 1]
             IN  <<lo[1] * hi[2] + hi[1] * lo[2], 2 * lo[2] * hi[2]>>

\* 1.4826, the scaling factor of filter_outliers
MadScale == <<14826, 10000>>

filter_outliers_unscaled(vals, threshold) ==
    LET rats == [i \in 1..Len(vals) |-> <<vals[i], 1>>]
        median == Median(rats)
        abs_deviations == [i \in 1..Len(vals) |-> RAbs(RSub(rats[i], median))]
        mad == Median(abs_deviations)
        mad_scaled == mad
        KeepFallback(v) ==
            RLe(RAbs(RSub(<<v, 1>>, median)), RMul(<<threshold, 1>>, median))
        Keep(v) ==
            RLe(RDiv(RAbs(RSub(<<v, 1>>, median)), mad_scaled), <<threshold, 1>>)
    IN  IF Len(vals) < 3 THEN vals
        ELSE IF mad[1] = 0 THEN SelectSeq(vals, KeepFallback)
        ELSE SelectSeq(vals, Keep)

filter_outliers(vals, threshold) ==
    LET rats == [i \in 1..Len(vals) |-> <<vals[i], 1>>]
        median == Median(rats)
        abs_deviations == [i \in 1..Len(vals) |-> RAbs(RSub(rats[i], median))]
        mad == Median(abs_deviations)
        mad_scaled == RMul(mad, MadScale)
        KeepFallback(v) ==
            RLe(RAbs(RSub(<<v, 1>>, median)), RMul(<<threshold, 1>>, median))
        Keep(v) ==
            RLe(RDiv(RAbs(RSub(<<v, 1>>, median)), mad_scaled), <<threshold, 1>>)
    IN  IF Len(vals) < 3 THEN vals
        ELSE IF mad[1] = 0 THEN SelectSeq(vals, KeepFallback)
        ELSE SelectSeq(vals, Keep)

\* sorted(data, key=id, reverse=True): stable, most recent first; records of
\* equal id keep their order.
RECURSIVE InsertByIdDesc(_, _)
InsertByIdDesc(sorted, item) ==
    IF sorted = <<>> THEN <<item>>
    ELSE IF sorted[Len(sorted)].id >= item.id THEN Append(sorted, item)
    ELSE Append(InsertByIdDesc(SubSeq(sorted, 1, Len(sorted) - 1), item),
                sorted[Len(sorted)])

RECURSIVE SortByIdDesc(_)
SortByIdDesc(s) ==
    IF s = <<>> THEN <<>>
    ELSE InsertByIdDesc(SortByIdDesc(SubSeq(s, 1, Len(s) - 1)), s[Len(s)])

\* The list comprehension [float(item[field]) for item in window_data
\* if field in item and item[field] is not None]
RECURSIVE FieldValues(_, _)
FieldValues(items, field) ==
    IF items = <<>> THEN <<>>
    ELSE IF items[1][field].t = "num"
         THEN <<items[1][field].v>> \o FieldValues(Tail(items), field)
         ELSE FieldValues(Tail(items), field)

Mean(vals) == IF vals = <<>> THEN <<0, 1>> ELSE <<SumSeq(vals), Len(vals)>>

\* calculate_rolling_average: the mean of the field over the window_days
\* most recent records that carry it.
calculate_rolling_average(data, field, window_days) ==
    LET sorted_data == SortByIdDesc(data)
        window_data == SubSeq(sorted_data, 1,
                              IF Len(sorted_data) < window_days
                              THEN Len(sorted_data) ELSE window_days)
        values == FieldValues(window_data, field)
    IN  IF data = <<>> THEN <<0, 1>>
        ELSE IF values = <<>> THEN <<0, 1>>
        ELSE Quotient(SumSeq(values), Len(values))

calculate_baseline_inclusive(data, field, baseline_days, end_date, filter_outliers_enabled) ==
    LET Before(item) == item.id <= end_date.v
        dated == IF end_date.t = "num" THEN SelectSeq(data, Before) ELSE data
        sorted_data == SortByIdDesc(dated)
        window_data == SubSeq(sorted_data, 1,
                              IF Len(sorted_data) < baseline_days
                              THEN Len(sorted_data) ELSE baseline_days)
        vals == FieldValues(window_data, field)
        kept == IF filter_outliers_enabled /\ Len(vals) >= 3
                THEN filter_outliers(vals, 3) ELSE vals
    IN  IF data = <<>> THEN <<0, 1>>
        ELSE IF vals = <<>> THEN <<0, 1>>
        ELSE Mean(kept)

calculate_baseline(data, field, baseline_days, end_date, filter_outliers_enabled) ==
    LET Before(item) == item.id < end_date.v
        dated == IF end_date.t = "num" THEN SelectSeq(data, Before) ELSE data
        sorted_data == SortByIdDesc(dated)
        window_data == SubSeq(sorted_data, 1,
                              IF Len(sorted_data) < baseline_days
                              THEN Len(sorted_data) ELSE baseline_days)
        vals == FieldValues(window_data, field)
        kept == IF filter_outliers_enabled /\ Len(vals) >= 3
                THEN filter_outliers(vals, 3) ELSE vals
    IN  IF data = <<>> THEN <<0, 1>>
        ELSE IF vals = <<>> THEN <<0, 1>>
        ELSE Mean(kept)

\* Inputs of filter_outliers: every list of at most MaxValues values, and
\* the two series of tests/test_baselines.py.
MaxValues == 4

OutlierValues == {-5, 0, 39, 40, 44, 255}

SeqsUpTo(S, n) == UNION {[1..k -> S] : k \in 0..n}

FilterInputs ==
    SeqsUpTo(OutlierValues, MaxValues)
    \cup {<<40, 42, 38, 255, 45, 47, 40>>, <<40, 42, 38, 45, 47, 40, 43>>}

\* Inputs of calculate_baseline: at most MaxRecords wellness records, one per
\* date, dated 1..MaxDay, in any order, the field missing, null or a number.
MaxRecords == 3
MaxDay == 4

BaselineFieldValues == {Absent, None, Num(40), Num(44), Num(255)}

BaselineData ==
    {d \in SeqsUpTo([id : 1..MaxDay, hrv : BaselineFieldValues], MaxRecords) :
        \A i, j \in 1..Len(d) : i # j => d[i].id # d[j].id}

BaselineDays == {2, 3, 7}
BaselineEndDates == {None, Num(3), Num(MaxDay + 1)}

----------------------------------------------------------------------------
(* analytics/recovery.py *)

\* hrv_today and rhr_today are numbers, the baselines rationals.
calculate_recovery_index(hrv_today, hrv_baseline, rhr_today, rhr_baseline) ==
    IF hrv_baseline[1] = 0 \/ rhr_baseline[1] = 0 THEN <<0, 1>>
    ELSE LET hrv_ratio == RDiv(<<hrv_today, 1>>, hrv_baseline)
             rhr_ratio == RDiv(<<rhr_today, 1>>, rhr_baseline)
         IN  IF rhr_ratio[1] = 0 THEN <<0, 1>>
             ELSE RNorm(RDiv(hrv_ratio, rhr_ratio))

calculate_acwr(atl, ctl) ==
    IF ctl = 0 THEN <<0, 1>> ELSE RNorm(Rat(atl, ctl))

----------------------------------------------------------------------------
(* analytics/load.py *)

RECURSIVE SumSquares(_)
SumSquares(s) == IF s = <<>> THEN 0 ELSE s[1] * s[1] + SumSquares(Tail(s))

IsPositive(load) == load > 0

\* mean / stdev of the loads above zero, stdev being the sample standard
\* deviation of statistics.stdev: with S the sum, Q the sum of squares and n
\* the count, variance = (n Q - S^2) / (n (n - 1)) and
\* (mean / stdev)^2 = S^2 (n - 1) / (n (n Q - S^2)).
calculate_monotony(daily_loads) ==
    LET loads == SelectSeq(daily_loads, IsPositive)
        n == Len(loads)
        S == SumSeq(loads)
        Q == SumSquares(loads)
    IN  IF Len(daily_loads) < 2 THEN Surd(<<0, 1>>)
        ELSE IF n < 2 THEN Surd(<<0, 1>>)
        ELSE IF n * Q - S * S = 0 THEN Surd(<<0, 1>>)
        ELSE Surd(<<S * S * (n - 1), n * (n * Q - S * S)>>)

\* monotony * mean_load, mean_load a non-negative rational
calculate_strain(monotony, mean_load) ==
    Surd(RMul(monotony.radicand, RMul(RNorm(mean_load), RNorm(mean_load))))

\* weekly_load a number, recovery_index a rational
calculate_load_recovery_ratio(weekly_load, recovery_index) ==
    IF recovery_index[1] = 0 THEN <<0, 1>>
    ELSE Quotient(weekly_load * recovery_index[2], recovery_index[1])

calculate_consistency_index(sessions_completed, sessions_planned) ==
    IF sessions_planned = 0 THEN <<0, 1>>
    ELSE Quotient(sessions_completed, sessions_planned)

----------------------------------------------------------------------------
(* analytics/zones.py *)

Zones == 1..7

NoZoneTimes == [z \in Zones |-> 0]

\* zone_totals after the entries of one icu_zone_times list: an entry
\* {"id": "Z<k>", "secs": n} adds n to zone k when n > 0.
RECURSIVE AddZoneTimes(_, _)
AddZoneTimes(zone_totals, zone_times) ==
    IF zone_times = <<>> THEN zone_totals
    ELSE LET zone == zone_times[1]
         IN  AddZoneTimes(IF zone.secs > 0
                          THEN [zone_totals EXCEPT ![zone.id] = @ + zone.secs]
                          ELSE zone_totals,
                          Tail(zone_times))

\* aggregate_zone_times(activities, "power").  The result is a record: the
\* totals per zone (a zone is a key of the Python dict iff its total is
\* positive), and whether the loop raised TypeError (icu_zone_times present
\* with the value None cannot be iterated).
RECURSIVE aggregate_zone_times(_)
aggregate_zone_times(acts) ==
    IF acts = <<>> THEN [raised |-> FALSE, totals |-> NoZoneTimes]
    ELSE LET rest == aggregate_zone_times(SubSeq(acts, 1, Len(acts) - 1))
             activity == acts[Len(acts)]
         IN  IF rest.raised THEN rest
             ELSE IF activity.icu_zone_times.t = "none"
                  THEN [raised |-> TRUE, totals |-> rest.totals]
             ELSE IF activity.icu_zone_times.t = "absent" THEN rest
             ELSE [raised |-> FALSE,
                   totals |-> AddZoneTimes(rest.totals, activity.icu_zone_times.v)]

\* bool(zone_times): the dict has at least one key
HasZoneTimes(zone_totals) == \E z \in Zones : zone_totals[z] > 0

calculate_polarization_index(zone_times) ==
    LET z1_time == zone_times[1] + zone_times[2]
        z2_time == zone_times[3] + zone_times[4]
        z3_time == zone_times[5] + zone_times[6] + zone_times[7]
    IN  IF z2_time = 0 THEN <<0, 1>>
        ELSE RNorm(<<z1_time + z3_time, z2_time>>)

calculate_3zone_distribution(zone_times) ==
    LET z1_time == zone_times[1] + zone_times[2]
        z2_time == zone_times[3] + zone_times[4]
        z3_time == zone_times[5] + zone_times[6] + zone_times[7]
        total_time == z1_time + z2_time + z3_time
    IN  IF total_time = 0 THEN [Z1 |-> <<0, 1>>, Z2 |-> <<0, 1>>, Z3 |-> <<0, 1>>]
        ELSE [Z1 |-> RNorm(<<z1_time * 100, total_time>>),
              Z2 |-> RNorm(<<z2_time * 100, total_time>>),
              Z3 |-> RNorm(<<z3_time * 100, total_time>>)]

----------------------------------------------------------------------------
(* analytics/tid_drift.py *)

\* A distribution argument: a dict with the keys Z1, Z2, Z3, the empty dict
\* or None.
TidDict(tid) == [t |-> "dict", v |-> tid]
EmptyTid == [t |-> "empty", v |-> [Z1 |-> <<0, 1>>, Z2 |-> <<0, 1>>, Z3 |-> <<0, 1>>]]
NoneTid == [t |-> "none", v |-> [Z1 |-> <<0, 1>>, Z2 |-> <<0, 1>>, Z3 |-> <<0, 1>>]]

detect_tid_drift_inclusive(tid_7d, tid_28d, threshold_pct) ==
    LET z1_diff == RAbs(RSub(tid_7d.v.Z1, tid_28d.v.Z1))
        z2_diff == RSub(tid_7d.v.Z2, tid_28d.v.Z2)
        z3_diff == RAbs(RSub(tid_7d.v.Z3, tid_28d.v.Z3))
    IN  IF tid_7d.t # "dict" \/ tid_28d.t # "dict" THEN "insufficient_data"
        ELSE IF RGe(z2_diff, <<threshold_pct, 1>>) THEN "acute_depolarization"
        ELSE IF \/ RGe(z1_diff, <<threshold_pct, 1>>)
                \/ RGe(RAbs(z2_diff), <<threshold_pct, 1>>)
                \/ RGe(z3_diff, <<threshold_pct, 1>>)
             THEN "shifting"
        ELSE "consistent"

detect_tid_drift(tid_7d, tid_28d, threshold_pct) ==
    LET z1_diff == RAbs(RSub(tid_7d.v.Z1, tid_28d.v.Z1))
        z2_diff == RSub(tid_7d.v.Z2, tid_28d.v.Z2)
        z3_diff == RAbs(RSub(tid_7d.v.Z3, tid_28d.v.Z3))
    IN  IF tid_7d.t # "dict" \/ tid_28d.t # "dict" THEN "insufficient_data"
        ELSE IF RGt(z2_diff, <<threshold_pct, 1>>) THEN "acute_depolarization"
        ELSE IF \/ RGt(z1_diff, <<threshold_pct, 1>>)
                \/ RGt(RAbs(z2_diff), <<threshold_pct, 1>>)
                \/ RGt(z3_diff, <<threshold_pct, 1>>)
             THEN "shifting"
        ELSE "consistent"

interpret_tid_drift(drift_classification) ==
    CASE drift_classification = "consistent" ->
            "Training intensity distribution is consistent with recent trends"
      [] drift_classification = "shifting" ->
            "Training intensity distribution is shifting - monitor pattern"
      [] drift_classification = "acute_depolarization" ->
            "Recent week shows increased threshold work - ensure adequate recovery"
      [] drift_classification = "insufficient_data" ->
            "Not enough data to assess TID drift"
      [] OTHER -> "Unknown drift pattern"

calculate_tid_comparison(tid_7d, tid_28d) ==
    LET drift_classification == detect_tid_drift(TidDict(tid_7d), TidDict(tid_28d), 15)
    IN  [drift_classification |-> drift_classification,
         interpretation |-> interpret_tid_drift(drift_classification),
         zone_differences |-> [Z1 |-> RNorm(RSub(tid_7d.Z1, tid_28d.Z1)),
                               Z2 |-> RNorm(RSub(tid_7d.Z2, tid_28d.Z2)),
                               Z3 |-> RNorm(RSub(tid_7d.Z3, tid_28d.Z3))],
         tid_7d |-> tid_7d,
         tid_28d |-> tid_28d]

----------------------------------------------------------------------------
(* analytics/durability.py *)

calculate_efficiency_factor_unguarded(normalized_power, average_hr) ==
    Quotient(normalized_power, average_hr)

calculate_efficiency_factor(normalized_power, average_hr) ==
    IF average_hr = 0 THEN <<0, 1>> ELSE Quotient(normalized_power, average_hr)

calculate_variability_index(normalized_power, average_power) ==
    IF average_power = 0 THEN <<0, 1>> ELSE Quotient(normalized_power, average_power)

RAdd(a, b) == RNorm(<<a[1] * b[2] + b[1] * a[2], a[2] * b[2]>>)

\* sum(ratios) over the samples with power > 0 and hr > 0, taken value by
\* value: each distinct pair (power, hr) contributes its ratio as often as
\* it occurs.
RECURSIVE SumRatios(_, _, _)
SumRatios(pairs, power_data, hr_data) ==
    IF pairs = {} THEN <<0, 1>>
    ELSE LET pair == CHOOSE x \in pairs : TRUE
             count == Cardinality({i \in 1..Len(power_data) :
                                      <<power_data[i], hr_data[i]>> = pair})
         IN  RAdd(Quotient(count * pair[1], pair[2]),
                  SumRatios(pairs \ {pair}, power_data, hr_data))

\* _calculate_average_pw_hr_ratio on two lists of one length
calculate_average_pw_hr_ratio(power_data, hr_data) ==
    LET kept == {i \in 1..Len(power_data) : power_data[i] > 0 /\ hr_data[i] > 0}
        pairs == {<<power_data[i], hr_data[i]>> : i \in kept}
        total == SumRatios(pairs, power_data, hr_data)
    IN  IF kept = {} THEN <<0, 1>>
        ELSE RNorm(<<total[1], total[2] * Cardinality(kept)>>)

\* Line 82: the minimum duration, 3600 samples at 1 Hz.
MinSamples == 3600

NoDecoupling == <<(<<0, 1>>), (<<0, 1>>), (<<0, 1>>)>>

Decoupled(power_stream, hr_stream) ==
    LET midpoint == Len(power_stream) \div 2
        first_half_ratio ==
            calculate_average_pw_hr_ratio(SubSeq(power_stream, 1, midpoint),
                                          SubSeq(hr_stream, 1, midpoint))
        second_half_ratio ==
            calculate_average_pw_hr_ratio(
                SubSeq(power_stream, midpoint + 1, Len(power_stream)),
                SubSeq(hr_stream, midpoint + 1, Len(hr_stream)))
        decoupling_pct ==
            RNorm(RMul(RDiv(RSub(second_half_ratio, first_half_ratio),
                            first_half_ratio), <<100, 1>>))
    IN  IF first_half_ratio[1] = 0 THEN NoDecoupling
        ELSE <<decoupling_pct, first_half_ratio, second_half_ratio>>

calculate_decoupling_no_minimum(power_stream, hr_stream) ==
    IF power_stream = <<>> \/ hr_stream = <<>> THEN NoDecoupling
    ELSE IF Len(power_stream) # Len(hr_stream) THEN NoDecoupling
    ELSE Decoupled(power_stream, hr_stream)

calculate_decoupling(power_stream, hr_stream) ==
    IF power_stream = <<>> \/ hr_stream = <<>> THEN NoDecoupling
    ELSE IF Len(power_stream) # Len(hr_stream) THEN NoDecoupling
    ELSE IF Len(power_stream) < MinSamples THEN NoDecoupling
    ELSE Decoupled(power_stream, hr_stream)

\* activity.get("decoupling") or activity.get("pw_hr_decoupling"): the first
\* if it is truthy, else the second (None when missing).
ActivityDecoupling(activity) ==
    IF Truthy(activity.decoupling) THEN activity.decoupling
    ELSE IF activity.pw_hr_decoupling.t = "num" THEN activity.pw_hr_decoupling
    ELSE None

\* The decoupling_values list of calculate_aggregate_durability.
RECURSIVE DecouplingValues(_, _)
DecouplingValues(acts, min_duration_minutes) ==
    IF acts = <<>> THEN <<>>
    ELSE LET activity == acts[1]
             moving_time == activity.moving_time
             \* duration_minutes < min_duration_minutes, in seconds
             too_short == IF Truthy(moving_time)
                          THEN moving_time.v < 60 * min_duration_minutes
                          ELSE 0 < min_duration_minutes
             decoupling == ActivityDecoupling(activity)
         IN  (IF ~too_short /\ decoupling.t = "num"
              THEN <<Abs(decoupling.v)>> ELSE <<>>)
             \o DecouplingValues(Tail(acts), min_duration_minutes)

calculate_aggregate_durability(acts, min_duration_minutes) ==
    LET decoupling_values == DecouplingValues(acts, min_duration_minutes)
        mean_decoupling == Mean(decoupling_values)
    IN  IF decoupling_values = <<>>
        THEN [mean_decoupling |-> RNone, activities_analyzed |-> 0,
              interpretation |-> "Insufficient data for durability assessment"]
        ELSE [mean_decoupling |-> RNum(Round(mean_decoupling, 1)),
              activities_analyzed |-> Len(decoupling_values),
              interpretation |->
                  IF RLt(mean_decoupling, <<5, 1>>) THEN "Excellent aerobic durability"
                  ELSE IF RLt(mean_decoupling, <<10, 1>>) THEN "Good aerobic durability"
                  ELSE "Poor aerobic durability - focus on base building"]

----------------------------------------------------------------------------
(* analytics/alerts.py *)

\* Alert.to_dict().  value and threshold are a number or a string; both
\* shapes are carried so that every alert has the same fields.
AlertValue(q) == [num |-> q, str |-> ""]
AlertString(s) == [num |-> <<0, 1>>, str |-> s]

Alert(severity, category, metric, value, threshold, message) ==
    [severity |-> severity, category |-> category, metric |-> metric,
     value |-> value, threshold |-> threshold, message |-> message]

\* severity_order.get(a.severity, 2)
severity_order(severity) ==
    IF severity = "alarm" THEN 0 ELSE IF severity = "warning" THEN 1 ELSE 2

\* Python sorted(alerts, key=...) is stable: an element goes behind every
\* element whose key is not greater than its own.
RECURSIVE InsertByKey(_, _)
InsertByKey(sorted, a) ==
    IF sorted = <<>> THEN <<a>>
    ELSE IF severity_order(sorted[Len(sorted)].severity) <= severity_order(a.severity)
         THEN Append(sorted, a)
         ELSE Append(InsertByKey(SubSeq(sorted, 1, Len(sorted) - 1), a),
                     sorted[Len(sorted)])

RECURSIVE SortBySeverity(_)
SortBySeverity(s) ==
    IF s = <<>> THEN <<>>
    ELSE InsertByKey(SortBySeverity(SubSeq(s, 1, Len(s) - 1)), s[Len(s)])

recovery_index_alerts(m) ==
    LET ri == m.recovery_index
    IN  IF ri.t = "num"
        THEN IF RLt(ri.v, <<6, 10>>)
             THEN <<Alert("alarm", "recovery", "recovery_index",
                          AlertValue(Round(ri.v, 2)), AlertValue(<<6, 10>>),
                          "Recovery Index critically low - deload required")>>
             ELSE IF RLt(ri.v, <<8, 10>>)
             THEN <<Alert("warning", "recovery", "recovery_index",
                          AlertValue(Round(ri.v, 2)), AlertValue(<<8, 10>>),
                          "Recovery Index low - consider reducing intensity")>>
             ELSE <<>>
        ELSE <<>>

acwr_alerts_swapped(m) ==
    LET acwr == m.acwr
    IN  IF acwr.t = "num"
        THEN IF RLt(acwr.v, <<8, 10>>)
             THEN <<Alert("warning", "load", "acwr",
                          AlertValue(Round(acwr.v, 2)), AlertValue(<<8, 10>>),
                          "ACWR low - training load may be insufficient")>>
             ELSE IF RGt(acwr.v, <<13, 10>>)
             THEN <<Alert("warning", "load", "acwr",
                          AlertValue(Round(acwr.v, 2)), AlertValue(<<13, 10>>),
                          "ACWR elevated - over-reaching risk")>>
             ELSE IF RGt(acwr.v, <<15, 10>>)
             THEN <<Alert("alarm", "load", "acwr",
                          AlertValue(Round(acwr.v, 2)), AlertValue(<<15, 10>>),
                          "ACWR critically high - high injury risk")>>
             ELSE <<>>
        ELSE <<>>

acwr_alerts(m) ==
    LET acwr == m.acwr
    IN  IF acwr.t = "num"
        THEN IF RLt(acwr.v, <<8, 10>>)
             THEN <<Alert("warning", "load", "acwr",
                          AlertValue(Round(acwr.v, 2)), AlertValue(<<8, 10>>),
                          "ACWR low - training load may be insufficient")>>
             ELSE IF RGt(acwr.v, <<15, 10>>)
             THEN <<Alert("alarm", "load", "acwr",
                          AlertValue(Round(acwr.v, 2)), AlertValue(<<15, 10>>),
                          "ACWR critically high - high injury risk")>>
             ELSE IF RGt(acwr.v, <<13, 10>>)
             THEN <<Alert("warning", "load", "acwr",
                          AlertValue(Round(acwr.v, 2)), AlertValue(<<13, 10>>),
                          "ACWR elevated - over-reaching risk")>>
             ELSE <<>>
        ELSE <<>>

monotony_alerts(m) ==
    LET monotony == m.monotony
    IN  IF monotony.t = "num"
        THEN IF RGt(monotony.v, <<25, 10>>)
             THEN <<Alert("alarm", "load", "monotony",
                          AlertValue(Round(monotony.v, 2)), AlertValue(<<25, 10>>),
                          "Training monotony too high - add variety")>>
             ELSE IF RGt(monotony.v, <<23, 10>>)
             THEN <<Alert("warning", "load", "monotony",
                          AlertValue(Round(monotony.v, 2)), AlertValue(<<23, 10>>),
                          "Training monotony approaching limit")>>
             ELSE <<>>
        ELSE <<>>

strain_alerts(m) ==
    LET strain == m.strain
    IN  IF strain.t = "num" /\ RGt(strain.v, <<3500, 1>>)
        THEN <<Alert("alarm", "load", "strain",
                     AlertValue(Round(strain.v, 1)), AlertValue(<<3500, 1>>),
                     "Training strain critically high")>>
        ELSE <<>>

polarization_alerts(m) ==
    LET pi_7d == m.polarization_index_7d
    IN  IF pi_7d.t = "num" /\ RLt(pi_7d.v, <<15, 10>>)
        THEN <<Alert("warning", "distribution", "polarization_index_7d",
                     AlertValue(Round(pi_7d.v, 2)), AlertValue(<<15, 10>>),
                     "Training becoming threshold-heavy (7d) - consider more polarization")>>
        ELSE <<>>

tid_drift_alerts(m) ==
    LET tid_drift == m.tid_drift
    IN  IF tid_drift.t = "str" /\ tid_drift.v = "acute_depolarization"
        THEN <<Alert("warning", "distribution", "tid_drift",
                     AlertString(tid_drift.v), AlertString("acute_depolarization"),
                     "Acute depolarization detected - high Z2 load this week")>>
        ELSE <<>>

durability_alerts(m) ==
    LET decoupling_7d == m.durability_7d_mean_decoupling
    IN  IF decoupling_7d.t = "num" /\ RGt(RAbs(decoupling_7d.v), <<10, 1>>)
        THEN <<Alert("warning", "durability", "durability_7d_mean_decoupling",
                     AlertValue(Round(RAbs(decoupling_7d.v), 1)), AlertValue(<<10, 1>>),
                     "Poor aerobic durability (7d avg) - focus on aerobic base building")>>
        ELSE <<>>

consistency_alerts(m) ==
    LET consistency == m.consistency_index
    IN  IF consistency.t = "num" /\ RLt(consistency.v, <<5, 10>>)
        THEN <<Alert("warning", "consistency", "consistency_index",
                     AlertValue(Round(consistency.v, 2)), AlertValue(<<5, 10>>),
                     "Low training consistency - aim for more regular sessions")>>
        ELSE <<>>

\* The alerts list of generate_alerts before the final sort.
collected_alerts(m) ==
    recovery_index_alerts(m) \o acwr_alerts(m) \o monotony_alerts(m)
    \o strain_alerts(m) \o polarization_alerts(m) \o tid_drift_alerts(m)
    \o durability_alerts(m) \o consistency_alerts(m)

generate_alerts_unsorted(m) == collected_alerts(m)

generate_alerts(m) == SortBySeverity(collected_alerts(m))

MetricKeys ==
    {"recovery_index", "acwr", "monotony", "strain", "polarization_index_7d",
     "tid_drift", "durability_7d_mean_decoupling", "consistency_index"}

NoMetrics ==
    [recovery_index |-> RAbsent, acwr |-> RAbsent, monotony |-> RAbsent,
     strain |-> RAbsent, polarization_index_7d |-> RAbsent,
     tid_drift |-> SAbsent, durability_7d_mean_decoupling |-> RAbsent,
     consistency_index |-> RAbsent]

\* Metric values on both sides of every threshold, the thresholds themselves,
\* a null, and values that round(…, 2) changes (0.599, 1.504).
AlertInputs ==
    [recovery_index |-> {RNone, RNum(<<599, 1000>>), RNum(<<6, 10>>),
                         RNum(<<79, 100>>), RNum(<<8, 10>>)},
     acwr |-> {RNone, RNum(<<79, 100>>), RNum(<<8, 10>>), RNum(<<13, 10>>),
               RNum(<<131, 100>>), RNum(<<15, 10>>), RNum(<<1504, 1000>>),
               RNum(<<16, 10>>)},
     monotony |-> {RNone, RNum(<<0, 1>>), RNum(<<23, 10>>), RNum(<<24, 10>>),
                   RNum(<<25, 10>>), RNum(<<26, 10>>)},
     strain |-> {RNone, RNum(<<3500, 1>>), RNum(<<35001, 10>>)},
     polarization_index_7d |-> {RNone, RNum(<<0, 1>>), RNum(<<149, 100>>),
                                RNum(<<15, 10>>)},
     tid_drift |-> {SNone, Str("acute_depolarization"), Str("shifting"),
                    Str("consistent")},
     durability_7d_mean_decoupling |-> {RNone, RNum(<<-11, 1>>), RNum(<<-10, 1>>),
                                        RNum(<<10, 1>>), RNum(<<101, 10>>)},
     consistency_index |-> {RNone, RNum(<<0, 1>>), RNum(<<49, 100>>),
                            RNum(<<5, 10>>)}]

\* At most MaxPresent keys are present in a metrics map of the model.
MaxPresent == 3

MetricDomain(k, present) ==
    IF k \in present THEN AlertInputs[k] ELSE {NoMetrics[k]}

MetricsMaps ==
    UNION { [recovery_index : MetricDomain("recovery_index", p),
             acwr : MetricDomain("acwr", p),
             monotony : MetricDomain("monotony", p),
             strain : MetricDomain("strain", p),
             polarization_index_7d : MetricDomain("polarization_index_7d", p),
             tid_drift : MetricDomain("tid_drift", p),
             durability_7d_mean_decoupling :
                 MetricDomain("durability_7d_mean_decoupling", p),
             consistency_index : MetricDomain("consistency_index", p)]
            : p \in {q \in SUBSET MetricKeys : Cardinality(q) <= MaxPresent} }

----------------------------------------------------------------------------
(* analytics/phase_detection.py *)

MaxLoad == 12

\* ctl_trend with a missing ctl_7d_ago taken as no change.
ctl_trend_missing_is_stable(ctl, ctl_7d_ago) ==
    IF ctl_7d_ago.t = "num" /\ ctl_7d_ago.v > 0
    THEN LET ctl_change_pct == Rat((ctl - ctl_7d_ago.v) * 100, ctl_7d_ago.v)
         IN  IF RGt(ctl_change_pct, <<5, 1>>) THEN "increasing"
             ELSE IF RLt(ctl_change_pct, <<-5, 1>>) THEN "decreasing"
             ELSE "stable"
    ELSE "stable"

\* ctl_trend of detect_training_phase: "none" stands for Python None.
ctl_trend(ctl, ctl_7d_ago) ==
    IF ctl_7d_ago.t = "num" /\ ctl_7d_ago.v > 0
    THEN LET ctl_change_pct == Rat((ctl - ctl_7d_ago.v) * 100, ctl_7d_ago.v)
         IN  IF RGt(ctl_change_pct, <<5, 1>>) THEN "increasing"
             ELSE IF RLt(ctl_change_pct, <<-5, 1>>) THEN "decreasing"
             ELSE "stable"
    ELSE "none"

detect_training_phase_le(ctl, atl, tsb, ctl_7d_ago) ==
    LET acwr == IF ctl > 0 THEN Rat(atl, ctl) ELSE <<0, 1>>
        trend == ctl_trend(ctl, ctl_7d_ago)
    IN  IF tsb > 15 /\ RLe(acwr, <<7, 10>>) THEN "Recovery"
        ELSE IF tsb > 5 /\ RLt(acwr, <<8, 10>>)
                /\ (trend = "decreasing" \/ trend = "stable") THEN "Taper"
        ELSE IF ctl > 80 /\ RGt(acwr, <<9, 10>>) /\ -10 < tsb /\ tsb < 5 THEN "Peak"
        ELSE IF trend = "increasing" /\ RLe(<<8, 10>>, acwr) /\ RLe(acwr, <<12, 10>>)
             THEN "Build"
        ELSE IF ctl < 60 THEN "Base"
        ELSE "Build"

detect_training_phase_reordered(ctl, atl, tsb, ctl_7d_ago) ==
    LET acwr == IF ctl > 0 THEN Rat(atl, ctl) ELSE <<0, 1>>
        trend == ctl_trend(ctl, ctl_7d_ago)
    IN  IF tsb > 15 /\ RLt(acwr, <<7, 10>>) THEN "Recovery"
        ELSE IF ctl > 80 /\ RGt(acwr, <<9, 10>>) /\ -10 < tsb /\ tsb < 5 THEN "Peak"
        ELSE IF ctl < 60 THEN "Base"
        ELSE IF tsb > 5 /\ RLt(acwr, <<8, 10>>)
                /\ (trend = "decreasing" \/ trend = "stable") THEN "Taper"
        ELSE IF trend = "increasing" /\ RLe(<<8, 10>>, acwr) /\ RLe(acwr, <<12, 10>>)
             THEN "Build"
        ELSE "Build"

detect_training_phase(ctl, atl, tsb, ctl_7d_ago) ==
    LET acwr == IF ctl > 0 THEN Rat(atl, ctl) ELSE <<0, 1>>
        trend == ctl_trend(ctl, ctl_7d_ago)
    IN  IF tsb > 15 /\ RLt(acwr, <<7, 10>>) THEN "Recovery"
        ELSE IF tsb > 5 /\ RLt(acwr, <<8, 10>>)
                /\ (trend = "decreasing" \/ trend = "stable") THEN "Taper"
        ELSE IF ctl > 80 /\ RGt(acwr, <<9, 10>>) /\ -10 < tsb /\ tsb < 5 THEN "Peak"
        ELSE IF trend = "increasing" /\ RLe(<<8, 10>>, acwr) /\ RLe(acwr, <<12, 10>>)
             THEN "Build"
        ELSE IF ctl < 60 THEN "Base"
        ELSE "Build"

interpret_training_phase(phase) ==
    CASE phase = "Base" -> "Building aerobic foundation - focus on volume at low intensity"
      [] phase = "Build" -> "Building fitness - structured intervals and progressive overload"
      [] phase = "Peak" -> "Peak fitness - maintain intensity, manage fatigue carefully"
      [] phase = "Taper" -> "Pre-event taper - reducing load while maintaining intensity"
      [] phase = "Recovery" -> "Recovery period - prioritize rest and adaptation"
      [] OTHER -> "Unknown phase"

\* Inputs: loads in steps of 10 up to 10 * MaxLoad, plus the values next to
\* the thresholds of the rules (CTL 59/60, 80/81, 5 % trend, TSB 5, 15, -10).
PhaseCtl == {10 * k : k \in 0..MaxLoad} \cup {59, 81, 105}
PhaseAtl == {10 * k : k \in 0..MaxLoad} \cup {56, 72, 84, 126}
PhaseTsb == {-30, -10, -9, 0, 4, 5, 6, 15, 16, 30}
PhaseCtl7dAgo == {None, Num(0), Num(50), Num(100), Num(110), Num(120)}

----------------------------------------------------------------------------
(* utils/snapshot_builder.py *)

\* datetime.now() of a build, as a day number.
Today == 30

\* A fetch result: the explicit error signal {"error": True, "message": ...}
\* or a list of records.
ErrorResult == [error |-> TRUE, message |-> "API error", items |-> <<>>]
ListResult(items) == [error |-> FALSE, message |-> "", items |-> items]

\* today_wellness when no record is dated today: the empty dict.
EmptyWellness ==
    [id |-> 0, ctl |-> Absent, atl |-> Absent, tsb |-> Absent, hrv |-> Absent,
     hrvRMSSD |-> Absent, hrvSDNN |-> Absent, restingHR |-> Absent,
     loadToday |-> Absent, sleepSecs |-> Absent, sleepScore |-> Absent]

\* next((item for item in wellness_data if item.get("id") == date_str), {})
RECURSIVE TodayWellness(_, _)
TodayWellness(wellness_data, date_str) ==
    IF wellness_data = <<>> THEN EmptyWellness
    ELSE IF wellness_data[1].id = date_str THEN wellness_data[1]
    ELSE TodayWellness(Tail(wellness_data), date_str)

\* The first of hrv, hrvRMSSD, hrvSDNN that today's record holds with a value
\* other than None; "" stands for hrv_field = None.
HrvField(today_wellness) ==
    IF today_wellness.hrv.t = "num" THEN "hrv"
    ELSE IF today_wellness.hrvRMSSD.t = "num" THEN "hrvRMSSD"
    ELSE IF today_wellness.hrvSDNN.t = "num" THEN "hrvSDNN"
    ELSE ""

\* Lines 119-140.  calculate_recovery_index cannot raise on numbers, so the
\* except branch (recovery_index None with recovery_index_error) is not taken.
RecoveryMetrics(wellness_data, today_wellness, date_str) ==
    LET hrv_field == HrvField(today_wellness)
        hrv_baseline == calculate_baseline(wellness_data, hrv_field, 7, Num(date_str), TRUE)
        rhr_baseline == calculate_baseline(wellness_data, "restingHR", 7, Num(date_str), TRUE)
        ri == calculate_recovery_index(today_wellness[hrv_field].v, hrv_baseline,
                                       today_wellness.restingHR.v, rhr_baseline)
        none == [recovery_index |-> RAbsent, hrv_baseline |-> RAbsent,
                 rhr_baseline |-> RAbsent, recovery_index_error |-> SAbsent]
    IN  IF hrv_field # "" /\ Truthy(today_wellness[hrv_field])
           /\ Truthy(today_wellness.restingHR)
        THEN IF hrv_baseline[1] > 0 /\ rhr_baseline[1] > 0
             THEN [recovery_index |-> RNum(Round(ri, 2)),
                   hrv_baseline |-> RNum(Round(hrv_baseline, 1)),
                   rhr_baseline |-> RNum(Round(rhr_baseline, 1)),
                   recovery_index_error |-> SAbsent]
             ELSE none
        ELSE none

\* Lines 142-149.
AcwrMetrics(today_wellness) ==
    IF Truthy(today_wellness.atl) /\ Truthy(today_wellness.ctl)
    THEN [acwr |-> RNum(Round(calculate_acwr(today_wellness.atl.v,
                                             today_wellness.ctl.v), 2)),
          acwr_error |-> SAbsent]
    ELSE [acwr |-> RAbsent, acwr_error |-> SAbsent]

\* [w.get("loadToday") or 0 for w in wellness_data
\*  if w.get("id", "") >= start_date_7d and w.get("id", "") <= date_str]
RECURSIVE DailyLoads(_, _, _)
DailyLoads(wellness_data, start_date_7d, date_str) ==
    IF wellness_data = <<>> THEN <<>>
    ELSE LET w == wellness_data[1]
         IN  (IF w.id >= start_date_7d /\ w.id <= date_str
              THEN <<IF Truthy(w.loadToday) THEN w.loadToday.v ELSE 0>>
              ELSE <<>>)
             \o DailyLoads(Tail(wellness_data), start_date_7d, date_str)

\* Lines 151-166.
LoadMetrics(wellness_data, start_date_7d, date_str) ==
    LET daily_loads == DailyLoads(wellness_data, start_date_7d, date_str)
        monotony == calculate_monotony(daily_loads)
        loads_above_zero == SelectSeq(daily_loads, IsPositive)
        mean_load == IF loads_above_zero # <<>>
                     THEN <<SumSeq(loads_above_zero), Len(loads_above_zero)>>
                     ELSE <<0, 1>>
        strain == calculate_strain(monotony, mean_load)
    IN  IF daily_loads # <<>>
        THEN [monotony |-> RNum(RoundSurd(monotony, 2)),
              strain |-> RNum(RoundSurd(strain, 1)),
              load_metrics_error |-> SAbsent]
        ELSE [monotony |-> RAbsent, strain |-> RAbsent,
              load_metrics_error |-> SAbsent]

NoTid == [Z1 |-> <<0, 1>>, Z2 |-> <<0, 1>>, Z3 |-> <<0, 1>>]
TidAbsent == [t |-> "absent", v |-> NoTid]
RoundedTid(tid) ==
    [t |-> "dict",
     v |-> [Z1 |-> Round(tid.Z1, 1), Z2 |-> Round(tid.Z2, 1), Z3 |-> Round(tid.Z3, 1)]]

\* Lines 168-185.  Both aggregations run before anything is written, so a
\* TypeError leaves only zone_distribution_error.
ZoneMetrics(activities_7d, activities_28d) ==
    LET agg_7d == aggregate_zone_times(activities_7d)
        agg_28d == aggregate_zone_times(activities_28d)
        zone_times_7d == agg_7d.totals
        zone_times_28d == agg_28d.totals
    IN  IF agg_7d.raised \/ agg_28d.raised
        THEN [polarization_index_7d |-> RAbsent, seiler_tid_7d |-> TidAbsent,
              polarization_index_28d |-> RAbsent, seiler_tid_28d |-> TidAbsent,
              zone_distribution_error |-> Str("Calculation error: 'NoneType' object is not iterable")]
        ELSE [polarization_index_7d |->
                  IF HasZoneTimes(zone_times_7d)
                  THEN RNum(Round(calculate_polarization_index(zone_times_7d), 2))
                  ELSE RAbsent,
              seiler_tid_7d |->
                  IF HasZoneTimes(zone_times_7d)
                  THEN RoundedTid(calculate_3zone_distribution(zone_times_7d))
                  ELSE TidAbsent,
              polarization_index_28d |->
                  IF HasZoneTimes(zone_times_28d)
                  THEN RNum(Round(calculate_polarization_index(zone_times_28d), 2))
                  ELSE RAbsent,
              seiler_tid_28d |->
                  IF HasZoneTimes(zone_times_28d)
                  THEN RoundedTid(calculate_3zone_distribution(zone_times_28d))
                  ELSE TidAbsent,
              zone_distribution_error |-> SAbsent]

NoTidComparison ==
    [t |-> "absent", v |-> calculate_tid_comparison(NoTid, NoTid)]

\* Lines 187-197, on the entries written by the zone block.
TidDriftMetrics(zone_metrics) ==
    IF zone_metrics.seiler_tid_7d.t = "dict" /\ zone_metrics.seiler_tid_28d.t = "dict"
    THEN LET tid_comparison == calculate_tid_comparison(zone_metrics.seiler_tid_7d.v,
                                                        zone_metrics.seiler_tid_28d.v)
         IN  [tid_drift |-> Str(tid_comparison.drift_classification),
              tid_comparison |-> [t |-> "dict", v |-> tid_comparison],
              tid_drift_error |-> SAbsent]
    ELSE [tid_drift |-> SAbsent, tid_comparison |-> NoTidComparison,
          tid_drift_error |-> SAbsent]

\* Lines 199-207.
DurabilityMetrics(activities_7d, activities_28d) ==
    [durability_7d |-> calculate_aggregate_durability(activities_7d, 60),
     durability_28d |-> calculate_aggregate_durability(activities_28d, 60),
     durability_error |-> SAbsent]

\* Lines 209-220.
PhaseMetrics(today_wellness) ==
    IF Truthy(today_wellness.ctl) /\ Truthy(today_wellness.atl)
       /\ Truthy(today_wellness.tsb)
    THEN LET phase == detect_training_phase(today_wellness.ctl.v, today_wellness.atl.v,
                                            today_wellness.tsb.v, None)
         IN  [phase_detected |-> Str(phase),
              phase_interpretation |-> Str(interpret_training_phase(phase)),
              phase_detection_error |-> SAbsent]
    ELSE [phase_detected |-> SAbsent, phase_interpretation |-> SAbsent,
          phase_detection_error |-> SAbsent]

\* Keys that generate_alerts reads and build_latest_snapshot never writes.
UnwrittenMetrics ==
    [durability_7d_mean_decoupling |-> RAbsent, consistency_index |-> RAbsent]

\* The derived_metrics dict at line 222.
DerivedMetrics(wellness_data, activities_7d, activities_28d, start_date_7d, date_str) ==
    LET today_wellness == TodayWellness(wellness_data, date_str)
        zone_metrics == ZoneMetrics(activities_7d, activities_28d)
    IN  RecoveryMetrics(wellness_data, today_wellness, date_str)
        @@ AcwrMetrics(today_wellness)
        @@ LoadMetrics(wellness_data, start_date_7d, date_str)
        @@ zone_metrics
        @@ TidDriftMetrics(zone_metrics)
        @@ DurabilityMetrics(activities_7d, activities_28d)
        @@ PhaseMetrics(today_wellness)
        @@ UnwrittenMetrics

\* x.get(key): None when the key is missing
Get(x) == IF x.t = "absent" THEN None ELSE x

\* Lines 265, 280 and 290: the lengths the three lists are cut to.
RecentActivitiesShown == 10
WellnessDaysShown == 7
PlannedWorkoutsShown == 5

FirstN(s, n) == SubSeq(s, 1, IF Len(s) < n THEN Len(s) ELSE n)
LastN(s, n) == SubSeq(s, IF Len(s) < n THEN 1 ELSE Len(s) - n + 1, Len(s))

\* Lines 241-253.  round() of None raises TypeError: a key that is present
\* with the value None is not replaced by the default of .get(key, 0).
CurrentStatusRaises_no_default(today_wellness) ==
    \/ today_wellness.ctl.t # "num"
    \/ today_wellness.atl.t # "num"
    \/ today_wellness.tsb.t # "num"
    \/ today_wellness.restingHR.t # "num"
    \/ today_wellness.sleepSecs.t # "num"

CurrentStatusRaises(today_wellness) ==
    \/ today_wellness.ctl.t = "none"
    \/ today_wellness.atl.t = "none"
    \/ today_wellness.tsb.t = "none"
    \/ today_wellness.restingHR.t = "none"
    \/ today_wellness.sleepSecs.t = "none"

\* round(today_wellness.get(key, 0), digits)
RoundedOrZero(x, digits) ==
    Round(<<IF x.t = "num" THEN x.v ELSE 0, 1>>, digits)

CurrentStatus(today_wellness) ==
    LET hrv_field == HrvField(today_wellness)
    IN  [fitness |->
            [ctl |-> RoundedOrZero(today_wellness.ctl, 1),
             atl |-> RoundedOrZero(today_wellness.atl, 1),
             tsb |-> RoundedOrZero(today_wellness.tsb, 1)],
         wellness |->
            [hrv |-> IF hrv_field # ""
                     THEN RNum(Round(<<today_wellness[hrv_field].v, 1>>, 1))
                     ELSE RNone,
             resting_hr |-> RoundedOrZero(today_wellness.restingHR, 0),
             sleep_hours |-> Round(<<IF today_wellness.sleepSecs.t = "num"
                                      THEN today_wellness.sleepSecs.v ELSE 0,
                                      3600>>, 1),
             sleep_score |-> IF today_wellness.sleepScore.t = "absent"
                             THEN Num(0) ELSE today_wellness.sleepScore]]

\* Lines 255-266: the entries name, type, distance and training_load are
\* copied like id and are not carried by the model's activities.
RecentActivity(a) ==
    [id |-> a.id, start_date |-> Get(a.start_date_local),
     moving_time |-> Get(a.moving_time), training_load |-> Get(a.training_load)]

\* Lines 267-281.
WellnessEntry(w, hrv_field) ==
    [date |-> w.id, ctl |-> Get(w.ctl), atl |-> Get(w.atl),
     tsb |-> IF w.tsb.t = "num" THEN w.tsb
             ELSE IF w.ctl.t = "num" /\ w.atl.t = "num" THEN Num(w.ctl.v - w.atl.v)
             ELSE None,
     hrv |-> IF hrv_field # "" THEN Get(w[hrv_field]) ELSE None,
     resting_hr |-> Get(w.restingHR)]

\* Lines 282-290.
IsWorkout(e) == e.category = "WORKOUT"
PlannedWorkout(e) == [id |-> e.id, start_date |-> e.start_date_local]

ErrorSnapshot(what, result) ==
    [kind |-> "error", error |-> TRUE, message |-> <<what, result.message>>]

RaisedSnapshot(exception) == [kind |-> "raised", exception |-> exception]

PendingSnapshot == [kind |-> "pending"]

\* Lines 77-293: build_latest_snapshot after its three fetches have returned
\* activities_result, wellness_result and events_result.
build_latest_snapshot(activities_fetched, wellness_fetched, events_fetched, days, extended_days, today) ==
    LET date_str == today
        start_date_7d == today - days
        wellness_data == wellness_fetched.items
        activities == activities_fetched.items
        events == IF events_fetched.error THEN <<>> ELSE events_fetched.items
        InWindow(a) == a.start_date_local.t = "num" /\ a.start_date_local.v >= start_date_7d
        NoDate(a) == a.start_date_local.t = "none"
        activities_7d == SelectSeq(activities, InWindow)
        activities_28d == activities
        today_wellness == TodayWellness(wellness_data, date_str)
        hrv_field == HrvField(today_wellness)
        derived_metrics == DerivedMetrics(wellness_data, activities_7d, activities_28d,
                                          start_date_7d, date_str)
        recent == FirstN(activities_7d, RecentActivitiesShown)
        last_wellness == LastN(wellness_data, WellnessDaysShown)
        workouts == SelectSeq(events, IsWorkout)
    IN  IF activities_fetched.error
        THEN ErrorSnapshot("Error fetching activities", activities_fetched)
        ELSE IF wellness_fetched.error
        THEN ErrorSnapshot("Error fetching wellness", wellness_fetched)
        ELSE IF SelectSeq(activities, NoDate) # <<>> THEN RaisedSnapshot("TypeError")
        ELSE IF CurrentStatusRaises(today_wellness) THEN RaisedSnapshot("TypeError")
        ELSE [kind |-> "document",
              READ_THIS_FIRST |-> [description |-> "Section 11 Training Snapshot",
                                   purpose |-> "Pre-calculated metrics for coaching decisions"],
              metadata |-> [snapshot_date |-> date_str, window_days |-> days,
                            extended_window_days |-> extended_days,
                            activities_count_7d |-> Len(activities_7d),
                            activities_count_28d |-> Len(activities_28d)],
              alerts |-> generate_alerts(derived_metrics),
              current_status |-> CurrentStatus(today_wellness),
              derived_metrics |-> derived_metrics,
              recent_activities |->
                  [i \in 1..Len(recent) |-> RecentActivity(recent[i])],
              wellness_data |->
                  [i \in 1..Len(last_wellness) |->
                      WellnessEntry(last_wellness[i], hrv_field)],
              planned_workouts |->
                  FirstN([i \in 1..Len(workouts) |-> PlannedWorkout(workouts[i])],
                         PlannedWorkoutsShown)]

\* Defaults of the parameters days and extended_days.
DefaultDays == 7
DefaultExtendedDays == 28

(* Data the three endpoints can hold.  A world is one athlete's data on the
   day of the build; every list is in the order the endpoint returns it. *)

MaxDefects == 2
MaxActivities == 2

WellnessFields ==
    {"ctl", "atl", "tsb", "hrv", "hrvRMSSD", "hrvSDNN", "restingHR",
     "loadToday", "sleepSecs", "sleepScore"}

\* A complete record for today.  Loads are small numbers so that the squares
\* under the roots of monotony and strain stay within 32 bits.
NominalToday ==
    [id |-> Today, ctl |-> Num(100), atl |-> Num(70), tsb |-> Num(30),
     hrv |-> Num(50), hrvRMSSD |-> Absent, hrvSDNN |-> Absent,
     restingHR |-> Num(55), loadToday |-> Num(10), sleepSecs |-> Num(28800),
     sleepScore |-> Num(85)]

\* Per field: the nominal value and the ways the endpoint can deviate from
\* it (key missing, null, zero, another reading).
TodayFieldValues(f) ==
    {NominalToday[f]} \cup
    CASE f = "ctl" -> {Absent, None, Num(0)}
      [] f = "atl" -> {Absent, None, Num(160)}
      [] f = "tsb" -> {Absent, None}
      [] f = "hrv" -> {Absent, None, Num(0)}
      [] f = "hrvRMSSD" -> {Num(45)}
      [] f = "restingHR" -> {Absent, None, Num(0)}
      [] f = "loadToday" -> {None, Num(0)}
      [] f = "sleepSecs" -> {Absent, None}
      [] OTHER -> {}

Defects(r, nominal, fields) == Cardinality({f \in fields : r[f] # nominal[f]})

TodayRecords ==
    {r \in [id : {Today}, ctl : TodayFieldValues("ctl"), atl : TodayFieldValues("atl"),
            tsb : TodayFieldValues("tsb"), hrv : TodayFieldValues("hrv"),
            hrvRMSSD : TodayFieldValues("hrvRMSSD"),
            hrvSDNN : TodayFieldValues("hrvSDNN"),
            restingHR : TodayFieldValues("restingHR"),
            loadToday : TodayFieldValues("loadToday"),
            sleepSecs : TodayFieldValues("sleepSecs"),
            sleepScore : TodayFieldValues("sleepScore")] :
        Defects(r, NominalToday, WellnessFields) <= MaxDefects}

\* Records of earlier days: a training day and a rest day without readings.
TrainingDay(day) ==
    [id |-> day, ctl |-> Num(98), atl |-> Num(72), tsb |-> Absent,
     hrv |-> Num(48), hrvRMSSD |-> Absent, hrvSDNN |-> Absent,
     restingHR |-> Num(57), loadToday |-> Num(4), sleepSecs |-> Num(27000),
     sleepScore |-> Num(80)]

RestDay(day) ==
    [id |-> day, ctl |-> Num(96), atl |-> Num(60), tsb |-> Num(36),
     hrv |-> None, hrvRMSSD |-> Absent, hrvSDNN |-> Absent,
     restingHR |-> None, loadToday |-> None, sleepSecs |-> Absent,
     sleepScore |-> Absent]

DayRecords(day) == {<<>>, <<TrainingDay(day)>>, <<RestDay(day)>>}

PastWellness ==
    {w8 \o w7 \o w1 : w8 \in DayRecords(Today - DefaultDays - 1),
                      w7 \in DayRecords(Today - DefaultDays),
                      w1 \in DayRecords(Today - 1)}

WellnessLists ==
    PastWellness \cup {past \o <<r>> : past \in PastWellness, r \in TodayRecords}

ZoneTimes(secs) == [t |-> "list", v |-> [i \in 1..Len(secs) |-> [id |-> i, secs |-> secs[i]]]]
NoZoneKey == [t |-> "absent", v |-> <<>>]
NullZoneTimes == [t |-> "none", v |-> <<>>]

ActivityFields ==
    {"start_date_local", "moving_time", "decoupling", "pw_hr_decoupling",
     "icu_zone_times", "training_load"}

\* A two-hour polarized ride of yesterday.
NominalActivity ==
    [id |-> 1, start_date_local |-> Num(Today - 1), moving_time |-> Num(7200),
     decoupling |-> Num(4), pw_hr_decoupling |-> Absent,
     icu_zone_times |-> ZoneTimes(<<3000, 3000, 300, 300, 600>>),
     training_load |-> Num(80)]

ActivityFieldValues(f) ==
    {NominalActivity[f]} \cup
    CASE f = "start_date_local" -> {Absent, None, Num(Today - DefaultDays - 1)}
      [] f = "moving_time" -> {None, Num(1800)}
      [] f = "decoupling" -> {None, Num(0), Num(-12)}
      [] f = "pw_hr_decoupling" -> {Num(11)}
      [] f = "icu_zone_times" -> {NoZoneKey, NullZoneTimes,
                                  ZoneTimes(<<3600, 3600>>),
                                  ZoneTimes(<<0, 600, 3000, 3000>>)}
      [] OTHER -> {}

\* An easy ride from before the 7-day window.
OlderEasyRide ==
    [NominalActivity EXCEPT !.start_date_local = Num(Today - DefaultDays - 1),
                            !.icu_zone_times = ZoneTimes(<<3600, 3600>>)]

Activities ==
    {OlderEasyRide} \cup
    {a \in [id : {1}, start_date_local : ActivityFieldValues("start_date_local"),
            moving_time : ActivityFieldValues("moving_time"),
            decoupling : ActivityFieldValues("decoupling"),
            pw_hr_decoupling : ActivityFieldValues("pw_hr_decoupling"),
            icu_zone_times : ActivityFieldValues("icu_zone_times"),
            training_load : ActivityFieldValues("training_load")] :
        Defects(a, NominalActivity, ActivityFields) <= 1}

ActivityLists == UNION {[1..n -> Activities] : n \in 0..MaxActivities}

Event(id, category, day) == [id |-> id, category |-> category, start_date_local |-> day]

EventLists ==
    {<<>>, <<Event(1, "WORKOUT", Today + 1), Event(2, "NOTE", Today + 2),
             Event(3, "WORKOUT", Today + 3)>>}

\* An athlete without any data.
NoWorld == [activities |-> <<>>, wellness |-> <<>>, events |-> <<>>]

Reverse(s) == [i \in 1..Len(s) |-> s[Len(s) + 1 - i]]

\* A busy athlete: one record more than each list shows.  Two rides a day,
\* a wellness record for every day of the primary window, a workout planned
\* for each of the coming days.
BusyActivities ==
    [i \in 1..(RecentActivitiesShown + 1) |->
        [NominalActivity EXCEPT !.id = i,
                                !.start_date_local = Num(Today - DefaultDays + i \div 2)]]

BusyWellness ==
    [i \in 1..(WellnessDaysShown + 1) |->
        IF i = WellnessDaysShown + 1 THEN NominalToday
        ELSE TrainingDay(Today - WellnessDaysShown - 1 + i)]

BusyEvents ==
    <<Event(0, "NOTE", Today)>> \o
    [i \in 1..(PlannedWorkoutsShown + 1) |-> Event(i, "WORKOUT", Today + i)]

\* The endpoints do not promise an order: each list oldest first or newest
\* first.
BusyWorlds ==
    [activities : {BusyActivities, Reverse(BusyActivities)},
     wellness : {BusyWellness, Reverse(BusyWellness)},
     events : {BusyEvents, Reverse(BusyEvents)}]

\* Worlds that vary the wellness data, worlds that vary the activities and
\* events, the world without data and the busy worlds.
Worlds ==
    [activities : {<<NominalActivity>>}, wellness : WellnessLists, events : {<<>>}]
    \cup
    [activities : ActivityLists,
     wellness : {<<TrainingDay(Today - 1), NominalToday>>},
     events : EventLists]
    \cup {NoWorld}
    \cup BusyWorlds

NotFetched == [error |-> FALSE, message |-> "pending", items |-> <<>>]

----------------------------------------------------------------------------
(* utils/history_builder.py *)

\* Dates.  A datetime is the ordinal of its day (day 1 = 1 January of
\* EpochYear), timedelta(days = n) adds n to it, and strftime("%Y-%m-%d")
\* turns it into the calendar date <<year, month, day>>; date strings are
\* compared as these triples.
EpochYear == 2023

IsLeap(y) == (y % 4 = 0 /\ y % 100 # 0) \/ y % 400 = 0
DaysInYear(y) == IF IsLeap(y) THEN 366 ELSE 365
DaysInMonth(y, m) ==
    IF m \in {4, 6, 9, 11} THEN 30
    ELSE IF m = 2 THEN (IF IsLeap(y) THEN 29 ELSE 28)
    ELSE 31

RECURSIVE MonthDay(_, _, _)
MonthDay(y, m, n) ==
    IF n <= DaysInMonth(y, m) THEN <<y, m, n>>
    ELSE MonthDay(y, m + 1, n - DaysInMonth(y, m))

RECURSIVE FromOrdinal(_, _)
FromOrdinal(y, n) ==
    IF n <= 0 THEN FromOrdinal(y - 1, n + DaysInYear(y - 1))
    ELSE IF n <= DaysInYear(y) THEN MonthDay(y, 1, n)
    ELSE FromOrdinal(y + 1, n - DaysInYear(y))

strftime(date) == FromOrdinal(EpochYear, date)

\* An optional date string: missing key, None or a date.
NoDateKey == [t |-> "absent", v |-> <<0, 0, 0>>]
NullDate == [t |-> "none", v |-> <<0, 0, 0>>]
DateStr(date) == [t |-> "str", v |-> strftime(date)]

\* next((w for w in wellness if w.get("id") == date_str), {})
EmptyDayWellness ==
    [id |-> <<0, 0, 0>>, ctl |-> Absent, atl |-> Absent, tsb |-> Absent,
     hrv |-> Absent, hrvRMSSD |-> Absent, restingHR |-> Absent,
     sleepSecs |-> Absent]

RECURSIVE DayWellness(_, _)
DayWellness(wellness, date_str) ==
    IF wellness = <<>> THEN EmptyDayWellness
    ELSE IF wellness[1].id = date_str THEN wellness[1]
    ELSE DayWellness(Tail(wellness), date_str)

\* a.get("training_load") or a.get("icu_training_load") or 0
ActivityLoad(a) ==
    IF Truthy(a.training_load) THEN a.training_load.v
    ELSE IF Truthy(a.icu_training_load) THEN a.icu_training_load.v
    ELSE 0

RECURSIVE SumLoads(_)
SumLoads(acts) ==
    IF acts = <<>> THEN 0 ELSE ActivityLoad(acts[1]) + SumLoads(Tail(acts))

\* round(float(x), 1) if x is not None else None
RoundedOrNone(x) ==
    IF x.t = "num" THEN RNum(Round(<<x.v, 1>>, 1)) ELSE RNone

\* One entry of build_daily_tier (lines 143-182); ramp_rate and weight are
\* copied like rhr and are not carried by the model's records.
DailyEntry(activities, wellness, date) ==
    LET date_str == strftime(date)
        day_wellness == DayWellness(wellness, date_str)
        OnDay(a) == a.start_date_local.t = "str" /\ a.start_date_local.v = date_str
        day_activities == SelectSeq(activities, OnDay)
        daily_tss == SumLoads(day_activities)
    IN  [date |-> date_str,
         ctl |-> RoundedOrNone(day_wellness.ctl),
         atl |-> RoundedOrNone(day_wellness.atl),
         tsb |-> IF day_wellness.ctl.t = "num" /\ day_wellness.atl.t = "num"
                 THEN RNum(Round(<<day_wellness.ctl.v - day_wellness.atl.v, 1>>, 1))
                 ELSE RNone,
         tss |-> IF daily_tss > 0 THEN daily_tss ELSE 0,
         activities_count |-> Len(day_activities),
         hrv |-> IF Truthy(day_wellness.hrv) THEN day_wellness.hrv
                 ELSE Get(day_wellness.hrvRMSSD),
         rhr |-> Get(day_wellness.restingHR),
         sleep_hours |-> IF Truthy(day_wellness.sleepSecs)
                         THEN RNum(Round(<<day_wellness.sleepSecs.v, 3600>>, 1))
                         ELSE RNone,
         phase |-> IF Truthy(day_wellness.ctl) /\ Truthy(day_wellness.atl)
                      /\ Truthy(day_wellness.tsb)
                   THEN Str(detect_training_phase(day_wellness.ctl.v,
                                                  day_wellness.atl.v,
                                                  day_wellness.tsb.v, None))
                   ELSE SNone]

\* build_daily_tier with datetime.now() = now.  The day filter slices
\* a.get("start_date_local", "") of every activity on every day, which
\* raises TypeError for a start date that is present with the value None.
build_daily_tier(activities, wellness, days, now) ==
    LET end_date == now
        NoDate(a) == a.start_date_local.t = "none"
    IN  IF days > 0 /\ SelectSeq(activities, NoDate) # <<>>
        THEN [kind |-> "raised", exception |-> "TypeError", entries |-> <<>>]
        ELSE [kind |-> "list", exception |-> "",
              entries |-> [k \in 1..days |->
                              DailyEntry(activities, wellness,
                                         end_date - (days - (k - 1) - 1))]]

\* Default window of the daily tier.
DailyTierDays == 90

\* Lines 65-66: list.sort with the key x.get("start_date_local", "") or
\* x.get("id", "").  A missing key sorts as the empty string, before every
\* date; the sort is stable.
SortKey(date) ==
    IF date.t = "str" THEN date.v[1] * 10000 + date.v[2] * 100 + date.v[3] ELSE 0

RECURSIVE InsertByStartDate(_, _)
InsertByStartDate(sorted, a) ==
    IF sorted = <<>> THEN <<a>>
    ELSE IF SortKey(a.start_date_local) < SortKey(sorted[Len(sorted)].start_date_local)
    THEN InsertByStartDate(SubSeq(sorted, 1, Len(sorted) - 1), a)
             \o <<sorted[Len(sorted)]>>
    ELSE sorted \o <<a>>

RECURSIVE SortByStartDate(_)
SortByStartDate(activities) ==
    IF activities = <<>> THEN <<>>
    ELSE InsertByStartDate(SortByStartDate(SubSeq(activities, 1, Len(activities) - 1)),
                           activities[Len(activities)])

RECURSIVE InsertById(_, _)
InsertById(sorted, w) ==
    IF sorted = <<>> THEN <<w>>
    ELSE IF SortKey([t |-> "str", v |-> w.id])
                < SortKey([t |-> "str", v |-> sorted[Len(sorted)].id])
    THEN InsertById(SubSeq(sorted, 1, Len(sorted) - 1), w) \o <<sorted[Len(sorted)]>>
    ELSE sorted \o <<w>>

RECURSIVE SortById(_)
SortById(wellness) ==
    IF wellness = <<>> THEN <<>>
    ELSE InsertById(SortById(SubSeq(wellness, 1, Len(wellness) - 1)),
                    wellness[Len(wellness)])

\* Comparing the key None with another key raises TypeError; a list of one
\* element is sorted without a comparison.
SortRaises(activities) ==
    /\ Len(activities) >= 2
    /\ \E i \in 1..Len(activities) : activities[i].start_date_local.t = "none"

\* The end of bucket i of n, counted from the first bucket instead of from
\* the last.
BucketEnd_from_first(end_date, n, i, length) == end_date - i * length

\* The bounds of the buckets of a tier (lines 207-208 and 303-304): bucket i
\* of n ends (n - i - 1) buckets before end_date and starts length - 1 days
\* before its end.
BucketEnd(end_date, n, i, length) == end_date - (n - i - 1) * length
BucketStart(end_date, n, i, length) == BucketEnd(end_date, n, i, length) - (length - 1)

\* start_str <= date <= end_str on date strings; a missing start date is
\* the empty string, below every date.
InBucket(date, start_str, end_str) ==
    /\ SortKey([t |-> "str", v |-> start_str]) <= SortKey(date)
    /\ SortKey(date) <= SortKey([t |-> "str", v |-> end_str])

\* Lines 247-256: the phase of the last wellness day of a week, when it
\* carries ctl, atl and tsb.
WeekPhase(week_wellness) ==
    LET last_day == week_wellness[Len(week_wellness)]
    IN  IF week_wellness # <<>> /\ Truthy(last_day.ctl) /\ Truthy(last_day.atl)
           /\ Truthy(last_day.tsb)
        THEN Str(detect_training_phase(last_day.ctl.v, last_day.atl.v,
                                       last_day.tsb.v, None))
        ELSE SNone

\* Lines 340-349: the phase of the last wellness day of a month, with
\* tsb = ctl - atl.
MonthPhase(month_wellness) ==
    LET last_day == month_wellness[Len(month_wellness)]
    IN  IF month_wellness # <<>> /\ Truthy(last_day.ctl) /\ Truthy(last_day.atl)
        THEN Str(detect_training_phase(last_day.ctl.v, last_day.atl.v,
                                       last_day.ctl.v - last_day.atl.v, None))
        ELSE SNone

\* One entry of build_weekly_tier (lines 207-273).  The averages of ctl, atl
\* and tsb, the hours, the durability, the monotony and the zone
\* distribution are not carried by the model's records.
WeeklyEntry(activities, wellness, week_start, week_end) ==
    LET week_start_str == strftime(week_start)
        week_end_str == strftime(week_end)
        InWeek(a) == InBucket(a.start_date_local, week_start_str, week_end_str)
        WellnessInWeek(w) == InBucket([t |-> "str", v |-> w.id], week_start_str,
                                      week_end_str)
        week_activities == SelectSeq(activities, InWeek)
        week_wellness == SelectSeq(wellness, WellnessInWeek)
        weekly_tss == SumLoads(week_activities)
    IN  [week_start |-> week_start_str, week_end |-> week_end_str,
         weekly_tss |-> IF weekly_tss > 0 THEN weekly_tss ELSE 0,
         activities_count |-> Len(week_activities),
         phase |-> WeekPhase(week_wellness)]

\* build_weekly_tier with datetime.now() = now (lines 186-278).  As in the
\* daily tier, slicing a start date that is None raises TypeError.
build_weekly_tier(activities, wellness, days, now) ==
    LET end_date == now
        weeks == days \div 7
        NoDate(a) == a.start_date_local.t = "none"
    IN  IF weeks > 0 /\ SelectSeq(activities, NoDate) # <<>>
        THEN [kind |-> "raised", exception |-> "TypeError", entries |-> <<>>]
        ELSE [kind |-> "list", exception |-> "",
              entries |-> [k \in 1..weeks |->
                              WeeklyEntry(activities, wellness,
                                          BucketStart(end_date, weeks, k - 1, 7),
                                          BucketEnd(end_date, weeks, k - 1, 7))]]

\* One entry of build_monthly_tier (lines 303-362): the label is year and
\* month of the first day of the bucket.  ctl_avg, ctl_end, the hours, the
\* durability and the zone distribution are not carried.
MonthlyEntry(activities, wellness, month_start, month_end) ==
    LET month_start_str == strftime(month_start)
        month_end_str == strftime(month_end)
        InMonth(a) == InBucket(a.start_date_local, month_start_str, month_end_str)
        WellnessInMonth(w) == InBucket([t |-> "str", v |-> w.id], month_start_str,
                                       month_end_str)
        month_activities == SelectSeq(activities, InMonth)
        month_wellness == SelectSeq(wellness, WellnessInMonth)
        monthly_tss == SumLoads(month_activities)
    IN  [month |-> <<month_start_str[1], month_start_str[2]>>,
         monthly_tss |-> IF monthly_tss > 0 THEN monthly_tss ELSE 0,
         activities_count |-> Len(month_activities),
         phase |-> MonthPhase(month_wellness)]

\* build_monthly_tier with datetime.now() = now (lines 281-366).
build_monthly_tier(activities, wellness, days, now) ==
    LET end_date == now
        months == days \div 30
        NoDate(a) == a.start_date_local.t = "none"
    IN  IF months > 0 /\ SelectSeq(activities, NoDate) # <<>>
        THEN [kind |-> "raised", exception |-> "TypeError", entries |-> <<>>]
        ELSE [kind |-> "list", exception |-> "",
              entries |-> [k \in 1..months |->
                              MonthlyEntry(activities, wellness,
                                           BucketStart(end_date, months, k - 1, 30),
                                           BucketEnd(end_date, months, k - 1, 30))]]

\* Lines 72-75: the windows of the weekly tier and of the three monthly tiers.
WeeklyTierDays == 180
MonthlyTierDays == {365, 730, 1095}

\* entry.get("id") of a date string: None when the key is missing.
GetDate(x) == IF x.t = "absent" THEN NullDate ELSE x

\* A wellness record as detect_phase_markers reads it: the date string id
\* and the readings ctl and atl.
MarkerWellness(date, ctl, atl) == [id |-> date, ctl |-> ctl, atl |-> atl]

\* if entry.get("ctl") and entry.get("atl")
Classified(entry) == Truthy(entry.ctl) /\ Truthy(entry.atl)

\* Lines 550-555: tsb = ctl - atl, then the phase detector with ctl, atl and
\* tsb only (ctl_7d_ago keeps its default None).
EntryPhase(entry) ==
    detect_training_phase(entry.ctl.v, entry.atl.v, entry.ctl.v - entry.atl.v, None)

\* Lines 558-566 closing a run: the marker ends at the id of the entry that
\* opens the next run.  A date is truthy when it is a string.
ClosedMarkers(phase_markers, current_phase, phase_start, entry) ==
    IF current_phase.t = "str" /\ phase_start.t = "str"
    THEN Append(phase_markers, [start_date |-> phase_start, end_date |-> GetDate(entry.id),
                                phase |-> current_phase.v])
    ELSE phase_markers

\* The loop of lines 548-568 over the entries left to scan.
RECURSIVE ScanPhases(_, _, _, _)
ScanPhases(entries, current_phase, phase_start, phase_markers) ==
    IF entries = <<>>
    THEN [current_phase |-> current_phase, phase_start |-> phase_start,
          phase_markers |-> phase_markers]
    ELSE LET entry == entries[1]
         IN  IF Classified(entry) /\ Str(EntryPhase(entry)) # current_phase
             THEN ScanPhases(Tail(entries), Str(EntryPhase(entry)), GetDate(entry.id),
                             ClosedMarkers(phase_markers, current_phase,
                                           phase_start, entry))
             ELSE ScanPhases(Tail(entries), current_phase, phase_start, phase_markers)

\* detect_phase_markers without lines 570-577: the run that is still open at
\* the end of the series is not emitted.
detect_phase_markers_open_run_dropped(wellness) ==
    ScanPhases(wellness, SNone, NullDate, <<>>).phase_markers

\* detect_phase_markers (lines 526-579); the parameter activities is not read.
detect_phase_markers(wellness) ==
    LET scanned == ScanPhases(wellness, SNone, NullDate, <<>>)
    IN  IF scanned.current_phase.t = "str" /\ scanned.phase_start.t = "str"
           /\ wellness # <<>>
        THEN Append(scanned.phase_markers,
                    [start_date |-> scanned.phase_start,
                     end_date |-> GetDate(wellness[Len(wellness)].id),
                     phase |-> scanned.current_phase.v])
        ELSE scanned.phase_markers

\* A wellness record as extract_ftp_timeline reads it.  sportInfo is missing,
\* something that is not a dict, or a dict whose "ride" dict may carry
\* icu_ftp_watts and ftp.
NoSportInfo == [t |-> "absent", icu_ftp_watts |-> Absent, ftp |-> Absent]
SportInfoList == [t |-> "list", icu_ftp_watts |-> Absent, ftp |-> Absent]
RideInfo(icu_ftp_watts, ftp) == [t |-> "dict", icu_ftp_watts |-> icu_ftp_watts, ftp |-> ftp]
FtpWellness(date, sport_info, weight) == [id |-> date, sportInfo |-> sport_info, weight |-> weight]

\* Lines 387-391: ride_info.get("icu_ftp_watts") or ride_info.get("ftp"),
\* reached only through the two isinstance tests; a missing sportInfo is the
\* empty dict.
RideFtp(entry) ==
    IF entry.sportInfo.t = "list" THEN None
    ELSE IF Truthy(entry.sportInfo.icu_ftp_watts) THEN entry.sportInfo.icu_ftp_watts
    ELSE Get(entry.sportInfo.ftp)

\* Lines 396-403: the entry appended for a changed FTP.
FtpChange(entry) ==
    LET ftp == RideFtp(entry).v
        weight == Get(entry.weight)
    IN  [date |-> GetDate(entry.id), ftp |-> ftp, weight |-> weight,
         w_kg |-> IF Truthy(weight) /\ weight.v > 0
                  THEN RNum(Round(<<ftp, weight.v>>, 2)) ELSE RNone,
         test_type |-> "Auto-calculated", source |-> "wellness"]

\* Line 394 without the comparison: every record with an FTP is recorded.
FtpChanged_every_record(ftp, prev_ftp) == Truthy(ftp)

\* Line 394: if ftp and ftp != prev_ftp
FtpChanged(ftp, prev_ftp) == Truthy(ftp) /\ ftp # prev_ftp

\* The loop of lines 386-404 over the entries left to scan.
RECURSIVE ScanFtp(_, _, _)
ScanFtp(entries, prev_ftp, ftp_changes) ==
    IF entries = <<>> THEN ftp_changes
    ELSE LET entry == entries[1]
         IN  IF entry.sportInfo.t # "list" /\ FtpChanged(RideFtp(entry), prev_ftp)
             THEN ScanFtp(Tail(entries), RideFtp(entry),
                          Append(ftp_changes, FtpChange(entry)))
             ELSE ScanFtp(Tail(entries), prev_ftp, ftp_changes)

\* Line 407: ftp_changes.sort(key=lambda x: x["date"]), a stable sort.  Every
\* record of the series carries its date.
RECURSIVE InsertByDate(_, _)
InsertByDate(sorted, change) ==
    IF sorted = <<>> THEN <<change>>
    ELSE IF SortKey(change.date) < SortKey(sorted[Len(sorted)].date)
    THEN InsertByDate(SubSeq(sorted, 1, Len(sorted) - 1), change)
             \o <<sorted[Len(sorted)]>>
    ELSE sorted \o <<change>>

RECURSIVE SortByDate(_)
SortByDate(ftp_changes) ==
    IF ftp_changes = <<>> THEN <<>>
    ELSE InsertByDate(SortByDate(SubSeq(ftp_changes, 1, Len(ftp_changes) - 1)),
                      ftp_changes[Len(ftp_changes)])

\* extract_ftp_timeline (lines 369-409); the parameter activities is not read.
extract_ftp_timeline(wellness) == SortByDate(ScanFtp(wellness, None, <<>>))

\* datetime.fromisoformat of a date string, as a day ordinal: the days of
\* the years and months before it, plus the day of the month.
RECURSIVE DaysBeforeYear(_)
DaysBeforeYear(y) ==
    IF y = EpochYear THEN 0
    ELSE IF y > EpochYear THEN DaysInYear(y - 1) + DaysBeforeYear(y - 1)
    ELSE DaysBeforeYear(y + 1) - DaysInYear(y)

RECURSIVE DaysBeforeMonth(_, _)
DaysBeforeMonth(y, m) ==
    IF m <= 1 THEN 0 ELSE DaysInMonth(y, m - 1) + DaysBeforeMonth(y, m - 1)

fromisoformat(date_str) ==
    DaysBeforeYear(date_str[1]) + DaysBeforeMonth(date_str[1], date_str[2]) + date_str[3]

\* An activity as detect_data_gaps reads it.
GapActivity(start_date_local) == [start_date_local |-> start_date_local]

\* Lines 503 and 516 with >= in place of >.
IsGap_inclusive(gap_days) == gap_days >= 7

\* Lines 503 and 516: if gap_days > 7
IsGap(gap_days) == gap_days > 7

\* Lines 504-509 and 517-522: the gap appended.
Gap(start_date, end_date, gap_days) ==
    [start_date |-> start_date, end_date |-> end_date, days |-> gap_days,
     reason |-> "no_activities"]

\* The loop of lines 494-511 over the sorted activities left to scan; an
\* activity without a start date is passed over.
RECURSIVE ScanGaps(_, _, _)
ScanGaps(sorted_activities, current_date, gaps) ==
    IF sorted_activities = <<>> THEN [current_date |-> current_date, gaps |-> gaps]
    ELSE LET activity == sorted_activities[1]
         IN  IF activity.start_date_local.t # "str"
             THEN ScanGaps(Tail(sorted_activities), current_date, gaps)
             ELSE LET activity_date == fromisoformat(activity.start_date_local.v)
                      gap_days == activity_date - current_date
                  IN  ScanGaps(Tail(sorted_activities), activity_date,
                               IF IsGap(gap_days)
                               THEN Append(gaps, Gap(strftime(current_date),
                                                     strftime(activity_date), gap_days))
                               ELSE gaps)

\* detect_data_gaps (lines 468-523): nothing for an empty list; otherwise the
\* gaps before and between the sorted activities and the gap at the end.
detect_data_gaps(activities, start_date, end_date) ==
    IF activities = <<>> THEN <<>>
    ELSE LET scanned == ScanGaps(SortByStartDate(activities),
                                 fromisoformat(start_date), <<>>)
             gap_days == fromisoformat(end_date) - scanned.current_date
         IN  IF IsGap(gap_days)
             THEN Append(scanned.gaps,
                         Gap(strftime(scanned.current_date), end_date, gap_days))
             ELSE scanned.gaps

\* Default of the parameter max_lookback_days.
DefaultLookbackDays == 1095

\* Lines 31-122: build_history_snapshot after its two fetches have returned.
\* today is the datetime.now() of line 31, read before the fetches; now is
\* the datetime.now() that each tier reads for itself (lines 140, 203, 299)
\* after them.  Of the document the model carries the metadata, the five
\* tiers and the data gaps; the timelines, the markers and the summary are
\* computed from the same two sorted lists.
build_history_snapshot(activities_fetched, wellness_fetched, max_lookback_days, today, now) ==
    LET start_date == strftime(today - max_lookback_days)
        end_date == strftime(today)
        activities == SortByStartDate(activities_fetched.items)
        wellness_data == SortById(wellness_fetched.items)
        tier_90d == build_daily_tier(activities, wellness_data, DailyTierDays, now)
        tier_180d == build_weekly_tier(activities, wellness_data, WeeklyTierDays, now)
        tier_1y == build_monthly_tier(activities, wellness_data, 365, now)
        tier_2y == build_monthly_tier(activities, wellness_data, 730, now)
        tier_3y == build_monthly_tier(activities, wellness_data, 1095, now)
    IN  IF activities_fetched.error
        THEN ErrorSnapshot("Error fetching activities", activities_fetched)
        ELSE IF wellness_fetched.error
        THEN ErrorSnapshot("Error fetching wellness", wellness_fetched)
        ELSE IF SortRaises(activities_fetched.items) THEN RaisedSnapshot("TypeError")
        ELSE IF tier_90d.kind = "raised" THEN RaisedSnapshot(tier_90d.exception)
        ELSE [kind |-> "document",
              READ_THIS_FIRST |-> [description |-> "Section 11 Training History"],
              metadata |-> [snapshot_date |-> end_date,
                            lookback_days |-> max_lookback_days,
                            data_points |-> [tier_90d |-> Len(tier_90d.entries),
                                             tier_180d |-> Len(tier_180d.entries),
                                             tier_1y |-> Len(tier_1y.entries),
                                             tier_2y |-> Len(tier_2y.entries),
                                             tier_3y |-> Len(tier_3y.entries)]],
              tier_90d |-> tier_90d.entries,
              tier_180d |-> tier_180d.entries,
              tier_1y |-> tier_1y.entries,
              tier_2y |-> tier_2y.entries,
              tier_3y |-> tier_3y.entries,
              data_gaps |-> detect_data_gaps(activities, start_date, end_date)]

----------------------------------------------------------------------------
(* State machines: one specification per component.  A component that is
   not the subject of a specification stays idle in it. *)

PhaseIdle ==
    /\ phase_args = [ctl |-> 0, atl |-> 0, tsb |-> 0, ctl_7d_ago |-> None]
    /\ phase_ret = "none"

AlertsIdle ==
    /\ metrics = NoMetrics
    /\ alerts = <<>>

FilterIdle ==
    /\ filter_args = [values |-> <<>>, threshold |-> 3]
    /\ filtered = <<>>

BaselineIdle ==
    /\ baseline_args = [data |-> <<>>, field |-> "hrv", baseline_days |-> 7,
                        end_date |-> None, filter_outliers_enabled |-> TRUE]
    /\ baseline = <<0, 1>>

SnapshotIdle ==
    /\ source = NoWorld
    /\ activities_result = NotFetched
    /\ wellness_result = NotFetched
    /\ events_result = NotFetched
    /\ snapshot = PendingSnapshot

DurabilityIdle ==
    /\ durability_args = [activities |-> <<>>, min_duration_minutes |-> 60]
    /\ durability_ret = calculate_aggregate_durability(<<>>, 60)

TidIdle ==
    /\ tid_args = [tid_7d |-> NoneTid, tid_28d |-> NoneTid, threshold_pct |-> 15]
    /\ tid_ret = "none"

TierIdle ==
    /\ tier_args = [activities |-> <<>>, wellness |-> <<>>, days |-> 0, now |-> 1]
    /\ tier_ret = build_daily_tier(<<>>, <<>>, 0, 1)

ConcurrencyIdle ==
    /\ builds = <<>>
    /\ interleaved = FALSE

TotalityIdle ==
    /\ calculator_call = [fn |-> "none"]
    /\ calculator_ret = <<0, 1>>

DecouplingIdle ==
    /\ decoupling_args = [power_stream |-> <<>>, hr_stream |-> <<>>]
    /\ decoupling_ret = NoDecoupling

HistoryPartsIdle ==
    /\ history_call = [fn |-> "none"]
    /\ history_ret = <<>>

ClockIdle ==
    /\ clock = 0
    /\ history_build = [pc |-> "idle"]

RemainingIdle ==
    /\ ConcurrencyIdle /\ TotalityIdle /\ DecouplingIdle
    /\ HistoryPartsIdle /\ ClockIdle

CalculatorsIdle == DurabilityIdle /\ TidIdle /\ TierIdle /\ RemainingIdle

(* detect_training_phase *)

PhaseInit ==
    /\ pc = "call"
    /\ phase_args \in [ctl : PhaseCtl, atl : PhaseAtl, tsb : PhaseTsb,
                       ctl_7d_ago : PhaseCtl7dAgo]
    /\ phase_ret = "none"
    /\ AlertsIdle /\ FilterIdle /\ BaselineIdle /\ SnapshotIdle /\ CalculatorsIdle

DetectTrainingPhase ==
    /\ pc = "call"
    /\ phase_ret' = detect_training_phase(phase_args.ctl, phase_args.atl,
                                          phase_args.tsb, phase_args.ctl_7d_ago)
    /\ pc' = "return"
    /\ UNCHANGED <<phase_args, metrics, alerts, filter_args, filtered,
                   baseline_args, baseline, snapshot_vars, calculator_vars>>

PhaseNext == DetectTrainingPhase

SpecPhase == PhaseInit /\ [][PhaseNext]_vars

(* generate_alerts *)

AlertsInit ==
    /\ pc = "call"
    /\ metrics \in MetricsMaps
    /\ alerts = <<>>
    /\ PhaseIdle /\ FilterIdle /\ BaselineIdle /\ SnapshotIdle /\ CalculatorsIdle

GenerateAlerts ==
    /\ pc = "call"
    /\ alerts' = generate_alerts(metrics)
    /\ pc' = "return"
    /\ UNCHANGED <<phase_args, phase_ret, metrics, filter_args, filtered,
                   baseline_args, baseline, snapshot_vars, calculator_vars>>

AlertsNext == GenerateAlerts

SpecAlerts == AlertsInit /\ [][AlertsNext]_vars

(* filter_outliers *)

FilterInit ==
    /\ pc = "call"
    /\ filter_args \in [values : FilterInputs, threshold : {2, 3}]
    /\ filtered = <<>>
    /\ PhaseIdle /\ AlertsIdle /\ BaselineIdle /\ SnapshotIdle /\ CalculatorsIdle

FilterOutliers ==
    /\ pc = "call"
    /\ filtered' = filter_outliers(filter_args.values, filter_args.threshold)
    /\ pc' = "return"
    /\ UNCHANGED <<phase_args, phase_ret, metrics, alerts, filter_args,
                   baseline_args, baseline, snapshot_vars, calculator_vars>>

FilterNext == FilterOutliers

SpecFilter == FilterInit /\ [][FilterNext]_vars

(* calculate_baseline *)

BaselineInit ==
    /\ pc = "call"
    /\ baseline_args \in [data : BaselineData, field : {"hrv"},
                          baseline_days : BaselineDays,
                          end_date : BaselineEndDates,
                          filter_outliers_enabled : BOOLEAN]
    /\ baseline = <<0, 1>>
    /\ PhaseIdle /\ AlertsIdle /\ FilterIdle /\ SnapshotIdle /\ CalculatorsIdle

CalculateBaseline ==
    /\ pc = "call"
    /\ baseline' = calculate_baseline(baseline_args.data, baseline_args.field,
                                      baseline_args.baseline_days,
                                      baseline_args.end_date,
                                      baseline_args.filter_outliers_enabled)
    /\ pc' = "return"
    /\ UNCHANGED <<phase_args, phase_ret, metrics, alerts, filter_args, filtered,
                   baseline_args, snapshot_vars, calculator_vars>>

BaselineNext == CalculateBaseline

SpecBaseline == BaselineInit /\ [][BaselineNext]_vars

(* build_latest_snapshot: three awaited fetches in program order, then the
   assembly of the document. *)

SnapshotInit ==
    /\ pc = "fetch_activities"
    /\ source \in Worlds
    /\ activities_result = NotFetched
    /\ wellness_result = NotFetched
    /\ events_result = NotFetched
    /\ snapshot = PendingSnapshot
    /\ PhaseIdle /\ AlertsIdle /\ FilterIdle /\ BaselineIdle /\ CalculatorsIdle

\* make_intervals_request: the endpoint's list, or the error signal.
FetchActivities ==
    /\ pc = "fetch_activities"
    /\ activities_result' \in {ErrorResult, ListResult(source.activities)}
    /\ pc' = "fetch_wellness"
    /\ UNCHANGED <<phase_args, phase_ret, metrics, alerts, filter_args, filtered,
                   baseline_args, baseline, source, wellness_result,
                   events_result, snapshot, calculator_vars>>

FetchWellness ==
    /\ pc = "fetch_wellness"
    /\ wellness_result' \in {ErrorResult, ListResult(source.wellness)}
    /\ pc' = "fetch_events"
    /\ UNCHANGED <<phase_args, phase_ret, metrics, alerts, filter_args, filtered,
                   baseline_args, baseline, source, activities_result,
                   events_result, snapshot, calculator_vars>>

FetchEvents ==
    /\ pc = "fetch_events"
    /\ events_result' \in {ErrorResult, ListResult(source.events)}
    /\ pc' = "assemble"
    /\ UNCHANGED <<phase_args, phase_ret, metrics, alerts, filter_args, filtered,
                   baseline_args, baseline, source, activities_result,
                   wellness_result, snapshot, calculator_vars>>

Assemble ==
    /\ pc = "assemble"
    /\ snapshot' = build_latest_snapshot(activities_result, wellness_result,
                                         events_result, DefaultDays,
                                         DefaultExtendedDays, Today)
    /\ pc' = "return"
    /\ UNCHANGED <<phase_args, phase_ret, metrics, alerts, filter_args, filtered,
                   baseline_args, baseline, source, activities_result,
                   wellness_result, events_result, calculator_vars>>

SnapshotNext == FetchActivities \/ FetchWellness \/ FetchEvents \/ Assemble

SpecSnapshot == SnapshotInit /\ [][SnapshotNext]_vars

(* calculate_aggregate_durability *)

MaxDurabilityActivities == 2

\* Activities on both sides of the 60-minute limit, with and without a
\* decoupling of their own and a precomputed one.
DurabilityActivities ==
    [moving_time : {Absent, None, Num(3599), Num(3600)},
     decoupling : {Absent, None, Num(0), Num(4), Num(-12)},
     pw_hr_decoupling : {Absent, Num(0), Num(11)}]

DurabilityInit ==
    /\ pc = "call"
    /\ durability_args \in
          [activities : UNION {[1..n -> DurabilityActivities] :
                                   n \in 0..MaxDurabilityActivities},
           min_duration_minutes : {60}]
    /\ durability_ret = calculate_aggregate_durability(<<>>, 60)
    /\ PhaseIdle /\ AlertsIdle /\ FilterIdle /\ BaselineIdle /\ SnapshotIdle
    /\ TidIdle /\ TierIdle /\ RemainingIdle

CalculateAggregateDurability ==
    /\ pc = "call"
    /\ durability_ret' = calculate_aggregate_durability(
                             durability_args.activities,
                             durability_args.min_duration_minutes)
    /\ pc' = "return"
    /\ UNCHANGED <<analytics_vars, snapshot_vars, durability_args, tid_vars,
                   tier_vars, remaining_vars>>

DurabilityNext == CalculateAggregateDurability

SpecDurability == DurabilityInit /\ [][DurabilityNext]_vars

(* detect_tid_drift *)

\* Percentages whose differences fall on both sides of the threshold and on
\* the threshold itself (15 - 0, 30 - 15, 31 - 15, 16 - 0, ...).
TidValues7d == {0, 15, 16, 30, 31, 60}
TidValues28d == {0, 15, 30}

Tid(z1, z2, z3) == [Z1 |-> <<z1, 1>>, Z2 |-> <<z2, 1>>, Z3 |-> <<z3, 1>>]

TidArguments7d ==
    {NoneTid, EmptyTid, TidDict(Tid(60, 10, 30))}
    \cup {TidDict(Tid(z1, z2, z3)) : z1, z2, z3 \in TidValues7d}

TidArguments28d ==
    {NoneTid, EmptyTid, TidDict(Tid(75, 20, 5))}
    \cup {TidDict(Tid(z1, z2, z3)) : z1, z2, z3 \in TidValues28d}

TidInit ==
    /\ pc = "call"
    /\ tid_args \in [tid_7d : TidArguments7d, tid_28d : TidArguments28d,
                     threshold_pct : {15}]
    /\ tid_ret = "none"
    /\ PhaseIdle /\ AlertsIdle /\ FilterIdle /\ BaselineIdle /\ SnapshotIdle
    /\ DurabilityIdle /\ TierIdle /\ RemainingIdle

DetectTidDrift ==
    /\ pc = "call"
    /\ tid_ret' = detect_tid_drift(tid_args.tid_7d, tid_args.tid_28d,
                                   tid_args.threshold_pct)
    /\ pc' = "return"
    /\ UNCHANGED <<analytics_vars, snapshot_vars, durability_vars, tid_args,
                   tier_vars, remaining_vars>>

TidNext == DetectTidDrift

SpecTidDrift == TidInit /\ [][TidNext]_vars

(* build_daily_tier *)

MaxTierActivities == 2

\* Days on which the tier is built: 1 January to 30 April 2024, so that the
\* windows cross a year boundary and 29 February.
TierNows == 366..486

TierActivity(start_date_local, training_load, icu_training_load) ==
    [start_date_local |-> start_date_local, training_load |-> training_load,
     icu_training_load |-> icu_training_load]

\* Activities of the last and the first day of the window, of the day
\* before the window, without a start date and with a null start date.
TierActivities(now) ==
    {TierActivity(DateStr(now), Num(80), Absent),
     TierActivity(DateStr(now - DailyTierDays + 1), None, Num(50)),
     TierActivity(DateStr(now - DailyTierDays), Num(70), Absent),
     TierActivity(NoDateKey, Num(60), Absent),
     TierActivity(NullDate, Num(40), Absent)}

TierWellnessRecord(date, ctl, atl, tsb, hrv, sleepSecs) ==
    [id |-> strftime(date), ctl |-> ctl, atl |-> atl, tsb |-> tsb, hrv |-> hrv,
     hrvRMSSD |-> Absent, restingHR |-> Num(55), sleepSecs |-> sleepSecs]

TierWellness(now) ==
    {<<>>,
     <<TierWellnessRecord(now, Num(100), Num(70), Num(30), Num(50), Num(28800))>>,
     <<TierWellnessRecord(now - 1, Num(98), Num(72), Absent, None, None),
       TierWellnessRecord(now, None, None, None, Absent, Absent)>>}

TierInit ==
    /\ pc = "call"
    /\ \E now \in TierNows :
          tier_args \in
              [activities : UNION {[1..n -> TierActivities(now)] :
                                       n \in 0..MaxTierActivities},
               wellness : TierWellness(now),
               days : {DailyTierDays},
               now : {now}]
    /\ tier_ret = build_daily_tier(<<>>, <<>>, 0, 1)
    /\ PhaseIdle /\ AlertsIdle /\ FilterIdle /\ BaselineIdle /\ SnapshotIdle
    /\ DurabilityIdle /\ TidIdle /\ RemainingIdle

BuildDailyTier ==
    /\ pc = "call"
    /\ tier_ret' = build_daily_tier(tier_args.activities, tier_args.wellness,
                                    tier_args.days, tier_args.now)
    /\ pc' = "return"
    /\ UNCHANGED <<analytics_vars, snapshot_vars, durability_vars, tid_vars,
                   tier_args, remaining_vars>>

TierNext == BuildDailyTier

SpecDailyTier == TierInit /\ [][TierNext]_vars

(* Two builds on one event loop.  A build is a coroutine: its arguments and
   local variables live in its own frame, and it gives up the loop only at
   its awaited fetches, where the other build may run.  The snapshot builds
   run on day Today of the snapshot worlds, the history builds on
   HistoryToday of the calendar. *)

Builders == {1, 2}

\* 29 February 2024.
HistoryToday == 425

SnapshotAthletes ==
    {NoWorld,
     [activities |-> <<NominalActivity, OlderEasyRide>>,
      wellness |-> <<TrainingDay(Today - 1), NominalToday>>,
      events |-> <<Event(1, "WORKOUT", Today + 1)>>],
     [activities |-> BusyActivities, wellness |-> BusyWellness,
      events |-> BusyEvents]}

HistoryAthletes ==
    {[activities |-> <<>>, wellness |-> <<>>, events |-> <<>>],
     [activities |-> <<TierActivity(DateStr(HistoryToday), Num(80), Absent),
                       TierActivity(DateStr(HistoryToday - 30), None, Num(50))>>,
      wellness |-> <<TierWellnessRecord(HistoryToday, Num(100), Num(70), Num(30),
                                        Num(50), Num(28800)),
                     TierWellnessRecord(HistoryToday - 1, Num(98), Num(72), Absent,
                                        None, None)>>,
      events |-> <<>>],
     [activities |-> <<TierActivity(DateStr(HistoryToday - 1), Num(60), Absent)>>,
      wellness |-> <<TierWellnessRecord(HistoryToday, Num(90), Num(110), Num(-20),
                                        Num(40), Num(25200))>>,
      events |-> <<>>]}

\* The calls: which builder, for which athlete, with which window.
Requests ==
    [kind : {"snapshot"}, athlete : SnapshotAthletes, window : {DefaultDays, 14}]
    \cup
    [kind : {"history"}, athlete : HistoryAthletes, window : {DefaultLookbackDays}]

NewBuild(request) ==
    [request |-> request, pc |-> "fetch_activities",
     activities_result |-> NotFetched, wellness_result |-> NotFetched,
     events_result |-> NotFetched, document |-> PendingSnapshot]

\* make_intervals_request(url = /athlete/{athlete_id}/{endpoint}): what one
\* call can return, the endpoint's list for that athlete as a value of its
\* own, or the error signal.
make_intervals_request(athlete, endpoint) == {ErrorResult, ListResult(athlete[endpoint])}

\* An assignment to a local variable of build p: no other frame changes.
Assign_module_level(b, p, name, value) == [q \in DOMAIN b |-> [b[q] EXCEPT ![name] = value]]

Assign(b, p, name, value) == [b EXCEPT ![p][name] = value]

Goto(b, p, label) == [b EXCEPT ![p].pc = label]

\* Another build is between its first fetch and its return.
OtherSuspended(p) ==
    \E q \in Builders \ {p} : builds[q].pc \notin {"fetch_activities", "return"}

BuildsInit ==
    /\ pc = "builds"
    /\ builds \in [Builders -> {NewBuild(r) : r \in Requests}]
    /\ interleaved = FALSE
    /\ PhaseIdle /\ AlertsIdle /\ FilterIdle /\ BaselineIdle /\ SnapshotIdle
    /\ DurabilityIdle /\ TidIdle /\ TierIdle /\ TotalityIdle /\ DecouplingIdle
    /\ HistoryPartsIdle /\ ClockIdle

BuildFetchActivities(p) ==
    /\ builds[p].pc = "fetch_activities"
    /\ \E result \in make_intervals_request(builds[p].request.athlete, "activities") :
          builds' = Goto(Assign(builds, p, "activities_result", result),
                         p, "fetch_wellness")
    /\ interleaved' = (interleaved \/ OtherSuspended(p))
    /\ UNCHANGED <<pc, analytics_vars, snapshot_vars, durability_vars, tid_vars,
                   tier_vars, totality_vars, decoupling_vars, history_vars,
                   clock_vars>>

BuildFetchWellness(p) ==
    /\ builds[p].pc = "fetch_wellness"
    /\ \E result \in make_intervals_request(builds[p].request.athlete, "wellness") :
          builds' = Goto(Assign(builds, p, "wellness_result", result), p,
                         IF builds[p].request.kind = "snapshot"
                         THEN "fetch_events" ELSE "assemble")
    /\ interleaved' = (interleaved \/ OtherSuspended(p))
    /\ UNCHANGED <<pc, analytics_vars, snapshot_vars, durability_vars, tid_vars,
                   tier_vars, totality_vars, decoupling_vars, history_vars,
                   clock_vars>>

BuildFetchEvents(p) ==
    /\ builds[p].pc = "fetch_events"
    /\ \E result \in make_intervals_request(builds[p].request.athlete, "events") :
          builds' = Goto(Assign(builds, p, "events_result", result), p, "assemble")
    /\ interleaved' = (interleaved \/ OtherSuspended(p))
    /\ UNCHANGED <<pc, analytics_vars, snapshot_vars, durability_vars, tid_vars,
                   tier_vars, totality_vars, decoupling_vars, history_vars,
                   clock_vars>>

Document(build) ==
    IF build.request.kind = "snapshot"
    THEN build_latest_snapshot(build.activities_result, build.wellness_result,
                               build.events_result, build.request.window,
                               DefaultExtendedDays, Today)
    ELSE build_history_snapshot(build.activities_result, build.wellness_result,
                                build.request.window, HistoryToday, HistoryToday)

BuildAssemble(p) ==
    /\ builds[p].pc = "assemble"
    /\ builds' = Goto(Assign(builds, p, "document", Document(builds[p])), p, "return")
    /\ UNCHANGED <<pc, interleaved, analytics_vars, snapshot_vars, durability_vars,
                   tid_vars, tier_vars, totality_vars, decoupling_vars, history_vars,
                   clock_vars>>

BuildsNext ==
    \E p \in Builders :
        \/ BuildFetchActivities(p)
        \/ BuildFetchWellness(p)
        \/ BuildFetchEvents(p)
        \/ BuildAssemble(p)

SpecBuilds == BuildsInit /\ [][BuildsNext]_vars

(* The ratio calculators, each called once on arguments that include its
   degenerate inputs. *)

MaxDailyLoads == 3
MaxSessions == 3

TrainingLoads == {0, 50, 70, 100}

CalculatorCalls ==
    [fn : {"calculate_rolling_average"}, data : BaselineData, field : {"hrv"},
     window_days : {1, 7}]
    \cup [fn : {"calculate_acwr"}, atl : TrainingLoads, ctl : TrainingLoads]
    \cup [fn : {"calculate_recovery_index"}, hrv_today : {0, 45, 50},
          hrv_baseline : {<<0, 1>>, <<50, 1>>, <<95, 2>>},
          rhr_today : {0, 55, 60},
          rhr_baseline : {<<0, 1>>, <<55, 1>>, <<111, 2>>}]
    \cup [fn : {"calculate_monotony"},
          daily_loads : SeqsUpTo({0, 4, 10}, MaxDailyLoads)]
    \cup [fn : {"calculate_load_recovery_ratio"}, weekly_load : {0, 300, 500},
          recovery_index : {<<0, 1>>, <<4, 5>>, <<1, 1>>}]
    \cup [fn : {"calculate_consistency_index"},
          sessions_completed : 0..MaxSessions, sessions_planned : 0..MaxSessions]
    \cup [fn : {"calculate_efficiency_factor"}, normalized_power : {0, 200, 250},
          average_hr : {0, 140, 150}]
    \cup [fn : {"calculate_variability_index"}, normalized_power : {0, 200, 210},
          average_power : {0, 190, 200}]
    \cup [fn : {"calculate_polarization_index"}, zone_times : [Zones -> {0, 600}]]

CalculatorsInit ==
    /\ pc = "call"
    /\ calculator_call \in CalculatorCalls
    /\ calculator_ret = <<0, 1>>
    /\ PhaseIdle /\ AlertsIdle /\ FilterIdle /\ BaselineIdle /\ SnapshotIdle
    /\ DurabilityIdle /\ TidIdle /\ TierIdle /\ ConcurrencyIdle /\ DecouplingIdle
    /\ HistoryPartsIdle /\ ClockIdle

Calling(fn) == pc = "call" /\ calculator_call.fn = fn

Return(value) ==
    /\ calculator_ret' = value
    /\ pc' = "return"
    /\ UNCHANGED <<analytics_vars, snapshot_vars, durability_vars, tid_vars,
                   tier_vars, concurrency_vars, decoupling_vars, history_vars,
                   clock_vars, calculator_call>>

CalculateRollingAverage ==
    /\ Calling("calculate_rolling_average")
    /\ Return(calculate_rolling_average(calculator_call.data, calculator_call.field,
                                        calculator_call.window_days))

CalculateAcwr ==
    /\ Calling("calculate_acwr")
    /\ Return(calculate_acwr(calculator_call.atl, calculator_call.ctl))

CalculateRecoveryIndex ==
    /\ Calling("calculate_recovery_index")
    /\ Return(calculate_recovery_index(calculator_call.hrv_today,
                                       calculator_call.hrv_baseline,
                                       calculator_call.rhr_today,
                                       calculator_call.rhr_baseline))

CalculateMonotony ==
    /\ Calling("calculate_monotony")
    /\ Return(calculate_monotony(calculator_call.daily_loads))

CalculateLoadRecoveryRatio ==
    /\ Calling("calculate_load_recovery_ratio")
    /\ Return(calculate_load_recovery_ratio(calculator_call.weekly_load,
                                            calculator_call.recovery_index))

CalculateConsistencyIndex ==
    /\ Calling("calculate_consistency_index")
    /\ Return(calculate_consistency_index(calculator_call.sessions_completed,
                                          calculator_call.sessions_planned))

CalculateEfficiencyFactor ==
    /\ Calling("calculate_efficiency_factor")
    /\ Return(calculate_efficiency_factor(calculator_call.normalized_power,
                                          calculator_call.average_hr))

CalculateVariabilityIndex ==
    /\ Calling("calculate_variability_index")
    /\ Return(calculate_variability_index(calculator_call.normalized_power,
                                          calculator_call.average_power))

CalculatePolarizationIndex ==
    /\ Calling("calculate_polarization_index")
    /\ Return(calculate_polarization_index(calculator_call.zone_times))

CalculatorsNext ==
    \/ CalculateRollingAverage
    \/ CalculateAcwr
    \/ CalculateRecoveryIndex
    \/ CalculateMonotony
    \/ CalculateLoadRecoveryRatio
    \/ CalculateConsistencyIndex
    \/ CalculateEfficiencyFactor
    \/ CalculateVariabilityIndex
    \/ CalculatePolarizationIndex

SpecCalculators == CalculatorsInit /\ [][CalculatorsNext]_vars

(* calculate_decoupling on streams around the minimum length: steady halves,
   which may differ, and streams that are zero on every other sample. *)

StreamLengths == {0, 1, MinSamples - 1, MinSamples, MinSamples + 1}

Halves(n, a, b) == [i \in 1..n |-> IF i <= n \div 2 THEN a ELSE b]
Comb(n, a, phase) == [i \in 1..n |-> IF i % 2 = phase THEN a ELSE 0]

Streams(values) ==
    {Halves(n, a, b) : n \in StreamLengths, a \in values \cup {0}, b \in values}
    \cup {Comb(n, a, phase) : n \in StreamLengths, a \in values, phase \in {0, 1}}

PowerStreams == Streams({200, 210})
HrStreams == Streams({140, 150})

DecouplingInit ==
    /\ pc = "call"
    /\ decoupling_args \in [power_stream : PowerStreams, hr_stream : HrStreams]
    /\ decoupling_ret = NoDecoupling
    /\ PhaseIdle /\ AlertsIdle /\ FilterIdle /\ BaselineIdle /\ SnapshotIdle
    /\ DurabilityIdle /\ TidIdle /\ TierIdle /\ ConcurrencyIdle /\ TotalityIdle
    /\ HistoryPartsIdle /\ ClockIdle

CalculateDecoupling ==
    /\ pc = "call"
    /\ decoupling_ret' = calculate_decoupling(decoupling_args.power_stream,
                                              decoupling_args.hr_stream)
    /\ pc' = "return"
    /\ UNCHANGED <<analytics_vars, snapshot_vars, durability_vars, tid_vars,
                   tier_vars, concurrency_vars, totality_vars, history_vars,
                   clock_vars, decoupling_args>>

DecouplingNext == CalculateDecoupling

SpecDecoupling == DecouplingInit /\ [][DecouplingNext]_vars

(* The parts of the history document computed from the two sorted lists:
   detect_phase_markers, extract_ftp_timeline, detect_data_gaps,
   build_weekly_tier and build_monthly_tier, each called once. *)

\* Longest wellness series handed to the scans.
MaxWellnessDays == 4

\* The series start on 28 Feb 2024 and run over the leap day into March.
FirstWellnessDay == HistoryToday - 1

\* CTL and ATL of a day: Recovery, Peak, Base, Build (by the default rule),
\* and two days the marker scan skips (CTL null, ATL 0).
PhaseReadings ==
    {<<Num(100), Num(60)>>, <<Num(100), Num(98)>>, <<Num(50), Num(50)>>,
     <<Num(70), Num(80)>>, <<None, Num(60)>>, <<Num(50), Num(0)>>}

MarkerSeries(readings) ==
    [i \in 1..Len(readings) |->
        MarkerWellness(DateStr(FirstWellnessDay + i - 1), readings[i][1],
                       readings[i][2])]

PhaseMarkerCalls ==
    [fn : {"detect_phase_markers"},
     wellness : {MarkerSeries(r) :
                    r \in UNION {[1..n -> PhaseReadings] : n \in 0..MaxWellnessDays}}]

\* The ride info of a day: none, a list instead of a dict, an FTP of 250 under
\* either key, 260 taking precedence over 250, a zero falling through to 260,
\* nulls, and a zero alone; the weight is 70 kg, null or zero.
FtpReadings ==
    {<<NoSportInfo, Num(70)>>, <<SportInfoList, Num(70)>>,
     <<RideInfo(Num(250), Absent), Num(70)>>, <<RideInfo(Absent, Num(250)), None>>,
     <<RideInfo(Num(260), Num(250)), Num(70)>>, <<RideInfo(Num(0), Num(260)), Num(0)>>,
     <<RideInfo(None, None), Num(70)>>, <<RideInfo(Absent, Num(0)), Num(70)>>}

FtpSeries(readings) ==
    [i \in 1..Len(readings) |->
        FtpWellness(DateStr(FirstWellnessDay + i - 1), readings[i][1], readings[i][2])]

FtpTimelineCalls ==
    [fn : {"extract_ftp_timeline"},
     wellness : {FtpSeries(r) :
                    r \in UNION {[1..n -> FtpReadings] : n \in 0..MaxWellnessDays}}]

\* The window of the gap scan: GapWindowDays days ending on 29 Feb 2024.
GapWindowDays == 30
MaxGapActivities == 3
GapWindowEnd == HistoryToday
GapWindowStart == GapWindowEnd - GapWindowDays

\* Start dates of the activities: the first day, spans of 7 and of 8 days
\* after it, after another activity and before the last day, the last day,
\* and no start date at all.
GapStartDates ==
    {DateStr(GapWindowStart + k) :
        k \in {0, 7, 8, 15, 16, GapWindowDays - 8, GapWindowDays - 7, GapWindowDays}}
    \cup {NoDateKey}

DataGapCalls ==
    [fn : {"detect_data_gaps"},
     activities : UNION {[1..n -> {GapActivity(s) : s \in GapStartDates}] :
                            n \in 0..MaxGapActivities},
     start_date : {strftime(GapWindowStart)}, end_date : {strftime(GapWindowEnd)}]

\* Activities on the last day of the tier, on both sides of the boundary
\* between the last two buckets, on the first day of the first bucket, on
\* the day before it, and without a start date.  An activity with a null
\* start date does not get here: build_daily_tier has raised on it before.
BucketActivities(now, buckets, length) ==
    {TierActivity(DateStr(now), Num(80), Absent),
     TierActivity(DateStr(now - length + 1), None, Num(50)),
     TierActivity(DateStr(now - length), Num(70), Absent),
     TierActivity(DateStr(now - buckets * length + 1), Num(30), Absent),
     TierActivity(DateStr(now - buckets * length), Num(20), Absent),
     TierActivity(NoDateKey, Num(60), Absent)}

\* The tiers are built on 29 February and on 1 March 2024.
BucketNows == {HistoryToday, HistoryToday + 1}

BucketCalls(fn, days, length) ==
    UNION {[fn : {fn},
            activities : UNION {[1..n -> BucketActivities(now, days \div length, length)] :
                                   n \in 0..MaxTierActivities},
            wellness : TierWellness(now), days : {days}, now : {now}] :
           now \in BucketNows}

WeeklyTierCalls == BucketCalls("build_weekly_tier", WeeklyTierDays, 7)

MonthlyTierCalls ==
    UNION {BucketCalls("build_monthly_tier", days, 30) : days \in MonthlyTierDays}

HistoryCalls ==
    PhaseMarkerCalls \cup FtpTimelineCalls \cup DataGapCalls \cup WeeklyTierCalls
        \cup MonthlyTierCalls

HistoryPartsInit ==
    /\ pc = "call"
    /\ history_call \in HistoryCalls
    /\ history_ret = <<>>
    /\ PhaseIdle /\ AlertsIdle /\ FilterIdle /\ BaselineIdle /\ SnapshotIdle
    /\ DurabilityIdle /\ TidIdle /\ TierIdle /\ ConcurrencyIdle /\ TotalityIdle
    /\ DecouplingIdle /\ ClockIdle

HistoryCalling(fn) == pc = "call" /\ history_call.fn = fn

HistoryReturn(value) ==
    /\ history_ret' = value
    /\ pc' = "return"
    /\ UNCHANGED <<analytics_vars, snapshot_vars, durability_vars, tid_vars,
                   tier_vars, concurrency_vars, totality_vars, decoupling_vars,
                   clock_vars, history_call>>

DetectPhaseMarkers ==
    /\ HistoryCalling("detect_phase_markers")
    /\ HistoryReturn(detect_phase_markers(history_call.wellness))

ExtractFtpTimeline ==
    /\ HistoryCalling("extract_ftp_timeline")
    /\ HistoryReturn(extract_ftp_timeline(history_call.wellness))

DetectDataGaps ==
    /\ HistoryCalling("detect_data_gaps")
    /\ HistoryReturn(detect_data_gaps(history_call.activities, history_call.start_date,
                                      history_call.end_date))

BuildWeeklyTier ==
    /\ HistoryCalling("build_weekly_tier")
    /\ HistoryReturn(build_weekly_tier(history_call.activities, history_call.wellness,
                                       history_call.days, history_call.now))

BuildMonthlyTier ==
    /\ HistoryCalling("build_monthly_tier")
    /\ HistoryReturn(build_monthly_tier(history_call.activities, history_call.wellness,
                                        history_call.days, history_call.now))

HistoryPartsNext ==
    \/ DetectPhaseMarkers
    \/ ExtractFtpTimeline
    \/ DetectDataGaps
    \/ BuildWeeklyTier
    \/ BuildMonthlyTier

SpecHistoryParts == HistoryPartsInit /\ [][HistoryPartsNext]_vars

(* One history build and the clock.  The build reads the clock when it
   starts (line 31) and fixes its fetch window; it is suspended in each of
   its two fetches, during which the day may change; after the fetches every
   tier reads the clock again. *)

\* Midnights that may pass during one build.
MaxMidnights == 2

\* The build starts on 29 February or on 1 March 2024.
ClockStarts == {HistoryToday, HistoryToday + 1}

\* The frame of the coroutine: its argument, today, the fetch window and the
\* two results.
HistoryFrame(athlete) ==
    [athlete |-> athlete, today |-> 0,
     params |-> [oldest |-> <<0, 0, 0>>, newest |-> <<0, 0, 0>>],
     activities_result |-> NotFetched, wellness_result |-> NotFetched,
     document |-> PendingSnapshot]

HistoryClockInit ==
    /\ pc = "start"
    /\ clock \in ClockStarts
    /\ history_build \in {HistoryFrame(athlete) : athlete \in HistoryAthletes}
    /\ PhaseIdle /\ AlertsIdle /\ FilterIdle /\ BaselineIdle /\ SnapshotIdle
    /\ DurabilityIdle /\ TidIdle /\ TierIdle /\ ConcurrencyIdle /\ TotalityIdle
    /\ DecouplingIdle /\ HistoryPartsIdle

HistoryStep(frame, next) ==
    /\ history_build' = frame
    /\ pc' = next
    /\ UNCHANGED <<clock, analytics_vars, snapshot_vars, durability_vars, tid_vars,
                   tier_vars, concurrency_vars, totality_vars, decoupling_vars,
                   history_vars>>

\* Lines 31-33: today = datetime.now() and the two ends of the fetch window.
ReadToday ==
    /\ pc = "start"
    /\ HistoryStep([history_build EXCEPT
                       !.today = clock,
                       !.params = [oldest |-> strftime(clock - DefaultLookbackDays),
                                   newest |-> strftime(clock)]],
                   "fetch_activities")

\* Lines 36-40 and 42-46: the awaited fetches; each returns the endpoint's
\* list or the error signal.
HistoryFetchActivities ==
    /\ pc = "fetch_activities"
    /\ \E result \in {ErrorResult, ListResult(history_build.athlete.activities)} :
          HistoryStep([history_build EXCEPT !.activities_result = result],
                      "fetch_wellness")

HistoryFetchWellness ==
    /\ pc = "fetch_wellness"
    /\ \E result \in {ErrorResult, ListResult(history_build.athlete.wellness)} :
          HistoryStep([history_build EXCEPT !.wellness_result = result], "assemble")

\* The day changes while the build is suspended in a fetch.
MidnightPasses ==
    /\ pc \in {"fetch_activities", "fetch_wellness"}
    /\ clock - history_build.today < MaxMidnights
    /\ clock' = clock + 1
    /\ UNCHANGED <<pc, history_build, analytics_vars, snapshot_vars, durability_vars,
                   tid_vars, tier_vars, concurrency_vars, totality_vars,
                   decoupling_vars, history_vars>>

\* Lines 48-122: everything after the fetches runs without suspension; the
\* tiers read the clock as it is then.
HistoryAssemble ==
    /\ pc = "assemble"
    /\ HistoryStep([history_build EXCEPT
                       !.document = build_history_snapshot(
                                        history_build.activities_result,
                                        history_build.wellness_result,
                                        DefaultLookbackDays, history_build.today,
                                        clock)],
                   "return")

HistoryClockNext ==
    \/ ReadToday
    \/ HistoryFetchActivities
    \/ HistoryFetchWellness
    \/ MidnightPasses
    \/ HistoryAssemble

SpecHistoryClock == HistoryClockInit /\ [][HistoryClockNext]_vars

----------------------------------------------------------------------------
(* Claims about filter_outliers and calculate_baseline *)

\* The k-th smallest element of a non-empty list of integers, by counting.
OrderStat(s, k) ==
    CHOOSE v \in {s[i] : i \in 1..Len(s)} :
        /\ Cardinality({i \in 1..Len(s) : s[i] <= v}) >= k
        /\ Cardinality({i \in 1..Len(s) : s[i] < v}) < k

\* Twice the median of a non-empty list of integers.
TwiceMedian(s) ==
    IF Len(s) % 2 = 1 THEN 2 * OrderStat(s, (Len(s) + 1) \div 2)
    ELSE OrderStat(s, Len(s) \div 2) + OrderStat(s, Len(s) \div 2 + 1)

\* 2 |v - median| for each value, and 4 MAD.
TwiceDeviations(s) == [i \in 1..Len(s) |-> Abs(2 * s[i] - TwiceMedian(s))]
FourMad(s) == TwiceMedian(TwiceDeviations(s))

\* v is kept: |v - median| <= threshold * 1.4826 * MAD when MAD > 0, and
\* |v - median| <= threshold * median when MAD = 0.
KeptByRule(s, threshold, i) ==
    IF FourMad(s) > 0
    THEN 2 * 10000 * TwiceDeviations(s)[i] <= threshold * 14826 * FourMad(s)
    ELSE TwiceDeviations(s)[i] <= threshold * TwiceMedian(s)

\* The elements of s at the positions in idx, in the order of s.
RECURSIVE Restrict(_, _)
Restrict(s, idx) ==
    IF s = <<>> THEN <<>>
    ELSE Restrict(SubSeq(s, 1, Len(s) - 1), idx)
         \o (IF Len(s) \in idx THEN <<s[Len(s)]>> ELSE <<>>)

\* C9: filter_outliers returns its input unchanged for fewer than 3 values;
\* otherwise the order-preserving subsequence of exactly the values within
\* threshold x 1.4826 x MAD of the median (threshold x median when MAD = 0).
\* From [40,42,38,255,45,47,40] exactly 255 is removed; the series
\* [40,42,38,45,47,40,43] is returned whole.
C9_FilterOutliers ==
    pc = "return" =>
        LET s == filter_args.values
            th == filter_args.threshold
        IN  /\ Len(s) < 3 => filtered = s
            /\ Len(s) >= 3 =>
                  filtered = Restrict(s, {i \in 1..Len(s) : KeptByRule(s, th, i)})
            /\ (s = <<40, 42, 38, 255, 45, 47, 40>> /\ th = 3)
                  => filtered = <<40, 42, 38, 45, 47, 40>>
            /\ (s = <<40, 42, 38, 45, 47, 40, 43>> /\ th = 3) => filtered = s

\* A value 4 MAD from the median is kept (4 / 1.4826 < 3) while an extreme
\* value of the same list is removed.
C9_Witness ==
    /\ pc = "return"
    /\ filter_args = [values |-> <<39, 40, 44, 255>>, threshold |-> 3]
    /\ filtered = <<39, 40, 44>>

BaselineEligible ==
    {i \in 1..Len(baseline_args.data) :
        baseline_args.end_date.t = "num"
            => baseline_args.data[i].id < baseline_args.end_date.v}

\* The baseline_days most recent eligible records: those with fewer than
\* baseline_days eligible records dated after them.
BaselineWindow ==
    {i \in BaselineEligible :
        Cardinality({j \in BaselineEligible :
                        baseline_args.data[j].id > baseline_args.data[i].id})
            < baseline_args.baseline_days}

BaselineWindowValues ==
    LET d == baseline_args.data
        present == {i \in BaselineWindow : d[i][baseline_args.field].t = "num"}
        vals == Restrict([i \in 1..Len(d) |-> d[i][baseline_args.field].v], present)
    IN  vals

BaselineKeptValues ==
    LET vals == BaselineWindowValues
    IN  IF baseline_args.filter_outliers_enabled /\ Len(vals) >= 3
        THEN Restrict(vals, {i \in 1..Len(vals) : KeptByRule(vals, 3, i)})
        ELSE vals

\* C8: calculate_baseline returns the mean of the values left after: keeping
\* the records dated strictly before end_date, taking the baseline_days most
\* recent of them, dropping missing or null values (such a record still uses
\* a window slot), and filtering outliers if enabled and at least 3 values
\* remain; 0.0 when nothing remains.  Records dated end_date or later do not
\* influence the result.
C8_BaselineSteps ==
    pc = "return" =>
        LET kept == BaselineKeptValues
            Earlier(item) == item.id < baseline_args.end_date.v
        IN  /\ IF kept = <<>> THEN baseline = <<0, 1>>
               ELSE baseline[1] * Len(kept) = SumSeq(kept) * baseline[2]
            /\ baseline_args.end_date.t = "num" =>
                  baseline = calculate_baseline(
                                 SelectSeq(baseline_args.data, Earlier),
                                 baseline_args.field, baseline_args.baseline_days,
                                 baseline_args.end_date,
                                 baseline_args.filter_outliers_enabled)

\* A record dated end_date holds an extreme value and is excluded; the most
\* recent earlier record has a null field and uses one of the 2 slots, so
\* the baseline is the single value 40.
C8_Witness ==
    /\ pc = "return"
    /\ baseline_args.end_date = Num(3)
    /\ baseline_args.baseline_days = 2
    /\ Len(baseline_args.data) = 3
    /\ \E i, j, k \in 1..3 :
          /\ baseline_args.data[i] = [id |-> 3, hrv |-> Num(255)]
          /\ baseline_args.data[j] = [id |-> 2, hrv |-> None]
          /\ baseline_args.data[k] = [id |-> 1, hrv |-> Num(40)]
    /\ baseline = <<40, 1>>

----------------------------------------------------------------------------
(* Claims about generate_alerts *)

\* The threshold table of the specification: the severity a metric's value
\* calls for ("none": no alert), on numerators and denominators.
TableSeverity(k) ==
    LET x == metrics[k]
        n == x.v[1]
        d == x.v[2]
    IN  IF x.t # "num" THEN "none"
        ELSE CASE k = "recovery_index" ->
                    IF 10 * n < 6 * d THEN "alarm"
                    ELSE IF 10 * n < 8 * d THEN "warning" ELSE "none"
               [] k = "acwr" ->
                    IF 10 * n < 8 * d THEN "warning"
                    ELSE IF 10 * n > 15 * d THEN "alarm"
                    ELSE IF 10 * n > 13 * d THEN "warning" ELSE "none"
               [] k = "monotony" ->
                    IF 10 * n > 25 * d THEN "alarm"
                    ELSE IF 10 * n > 23 * d THEN "warning" ELSE "none"
               [] k = "strain" -> IF n > 3500 * d THEN "alarm" ELSE "none"
               [] k = "polarization_index_7d" ->
                    IF 10 * n < 15 * d THEN "warning" ELSE "none"
               [] k = "durability_7d_mean_decoupling" ->
                    IF n > 10 * d \/ -n > 10 * d THEN "warning" ELSE "none"
               [] k = "consistency_index" ->
                    IF 10 * n < 5 * d THEN "warning" ELSE "none"

ExpectedSeverity(k) ==
    IF k = "tid_drift"
    THEN IF metrics.tid_drift.t = "str" /\ metrics.tid_drift.v = "acute_depolarization"
         THEN "warning" ELSE "none"
    ELSE TableSeverity(k)

AlertsOf(k) == {i \in 1..Len(alerts) : alerts[i].metric = k}

\* C4: generate_alerts emits exactly the alerts of the threshold table, each
\* rule decided by its own key with strict comparisons; an absent or null key
\* emits nothing, there is at most one alert per metric, and an empty map
\* yields an empty list.
C4_ThresholdTable ==
    pc = "return" =>
        /\ \A i \in 1..Len(alerts) : alerts[i].metric \in MetricKeys
        /\ \A k \in MetricKeys :
              /\ Cardinality(AlertsOf(k)) <= 1
              /\ ExpectedSeverity(k) = "none" <=> AlertsOf(k) = {}
              /\ \A i \in AlertsOf(k) : alerts[i].severity = ExpectedSeverity(k)
        /\ (metrics = NoMetrics => alerts = <<>>)

\* ACWR above 1.5 raises the alarm (not the 1.3 warning) next to a monotony
\* value on its warning threshold, which raises nothing.
C4_Witness ==
    /\ pc = "return"
    /\ metrics.acwr = RNum(<<16, 10>>)
    /\ metrics.monotony = RNum(<<23, 10>>)
    /\ metrics.recovery_index = RNone
    /\ Len(alerts) = 1
    /\ alerts[1].metric = "acwr" /\ alerts[1].severity = "alarm"

\* Position of a metric's rule in the evaluation order of generate_alerts.
RuleIndex(k) ==
    CASE k = "recovery_index" -> 1 [] k = "acwr" -> 2 [] k = "monotony" -> 3
      [] k = "strain" -> 4 [] k = "polarization_index_7d" -> 5
      [] k = "tid_drift" -> 6 [] k = "durability_7d_mean_decoupling" -> 7
      [] k = "consistency_index" -> 8

OnlyPresent(keys) ==
    \A k \in MetricKeys : (metrics[k].t # "absent") <=> (k \in keys)

\* C5: in the returned list no warning precedes an alarm and alerts of equal
\* severity are in rule-evaluation order; monotony 2.6 alone gives exactly one
\* alarm, and with acwr 1.6 both alarms appear, acwr first.
C5_AlarmsFirstStable ==
    pc = "return" =>
        /\ \A i, j \in 1..Len(alerts) :
              i < j =>
                 /\ ~(alerts[i].severity = "warning" /\ alerts[j].severity = "alarm")
                 /\ alerts[i].severity = alerts[j].severity
                       => RuleIndex(alerts[i].metric) < RuleIndex(alerts[j].metric)
        /\ (OnlyPresent({"monotony"}) /\ metrics.monotony = RNum(<<26, 10>>))
              => /\ Len(alerts) = 1
                 /\ alerts[1].severity = "alarm" /\ alerts[1].metric = "monotony"
        /\ (/\ OnlyPresent({"monotony", "acwr"})
            /\ metrics.monotony = RNum(<<26, 10>>)
            /\ metrics.acwr = RNum(<<16, 10>>))
              => /\ Len(alerts) = 2
                 /\ alerts[1].severity = "alarm" /\ alerts[1].metric = "acwr"
                 /\ alerts[2].severity = "alarm" /\ alerts[2].metric = "monotony"

\* The sort has moved an alarm (strain) in front of two warnings raised by
\* earlier rules, which keep their order.
C5_Witness ==
    /\ pc = "return"
    /\ Len(alerts) = 3
    /\ alerts[1].metric = "strain" /\ alerts[1].severity = "alarm"
    /\ alerts[2].metric = "recovery_index" /\ alerts[2].severity = "warning"
    /\ alerts[3].metric = "acwr" /\ alerts[3].severity = "warning"

----------------------------------------------------------------------------
(* Claims about detect_training_phase *)

\* The rules of the classifier as the specification lists them, on the
\* arguments of the call, with the ratio and trend tests cross-multiplied.
PhaseAcwrN == IF phase_args.ctl > 0 THEN phase_args.atl ELSE 0
PhaseAcwrD == IF phase_args.ctl > 0 THEN phase_args.ctl ELSE 1
PhaseHasTrend == phase_args.ctl_7d_ago.t = "num" /\ phase_args.ctl_7d_ago.v > 0
PhaseIncreasing ==
    PhaseHasTrend /\ 100 * phase_args.ctl > 105 * phase_args.ctl_7d_ago.v
PhaseDecreasing ==
    PhaseHasTrend /\ 100 * phase_args.ctl < 95 * phase_args.ctl_7d_ago.v
PhaseStable == PhaseHasTrend /\ ~PhaseIncreasing /\ ~PhaseDecreasing

PhaseRule(i) ==
    CASE i = 1 -> phase_args.tsb > 15 /\ 10 * PhaseAcwrN < 7 * PhaseAcwrD
      [] i = 2 -> /\ phase_args.tsb > 5
                  /\ 10 * PhaseAcwrN < 8 * PhaseAcwrD
                  /\ (PhaseDecreasing \/ PhaseStable)
      [] i = 3 -> /\ phase_args.ctl > 80
                  /\ 10 * PhaseAcwrN > 9 * PhaseAcwrD
                  /\ -10 < phase_args.tsb /\ phase_args.tsb < 5
      [] i = 4 -> /\ PhaseIncreasing
                  /\ 10 * PhaseAcwrN >= 8 * PhaseAcwrD
                  /\ 10 * PhaseAcwrN <= 12 * PhaseAcwrD
      [] i = 5 -> phase_args.ctl < 60
      [] OTHER -> TRUE

PhaseLabel(i) ==
    CASE i = 1 -> "Recovery" [] i = 2 -> "Taper" [] i = 3 -> "Peak"
      [] i = 4 -> "Build" [] i = 5 -> "Base" [] OTHER -> "Build"

PhaseFirstRule == CHOOSE i \in 1..6 : PhaseRule(i) /\ \A j \in 1..(i - 1) : ~PhaseRule(j)

\* C6: detect_training_phase returns the phase of the first matching rule in
\* the order Recovery, Taper, Peak, Build, Base, default Build, and the
\* result is always one of the five phases.
C6_FirstMatchWins ==
    pc = "return" =>
        /\ phase_ret = PhaseLabel(PhaseFirstRule)
        /\ phase_ret \in {"Recovery", "Taper", "Peak", "Build", "Base"}

\* A call on which two rules match (Taper and Base) and the earlier one
\* decides.
C6_Witness ==
    /\ pc = "return"
    /\ PhaseRule(2) /\ PhaseRule(5) /\ ~PhaseRule(1)
    /\ phase_ret = "Taper"

C7Args == [ctl |-> 100, atl |-> 70, tsb |-> 30, ctl_7d_ago |-> None]

\* C7 (as stated): detect_training_phase(ctl=100, atl=70, tsb=30) returns
\* "Recovery".
C7_ReturnsRecovery ==
    (pc = "return" /\ phase_args = C7Args) => phase_ret = "Recovery"

\* C7 (amended): with ctl=100, atl=70, tsb=30 and no ctl_7d_ago the ratio is
\* exactly 0.7, the strict test ACWR < 0.7 fails, no other rule matches and
\* the default applies: the call returns "Build".
C7_ReturnsBuild ==
    (pc = "return" /\ phase_args = C7Args) => phase_ret = "Build"

C7_Witness == pc = "return" /\ phase_args = C7Args /\ phase_ret = "Build"

----------------------------------------------------------------------------
(* Claims about build_latest_snapshot *)

Returned == pc = "return"

NoFetchError ==
    /\ ~activities_result.error
    /\ ~wellness_result.error
    /\ ~events_result.error

\* C1: if any of the three fetches of build_latest_snapshot returned the
\* explicit error signal, the build returns an error signal with a message
\* and no document.
C1_FetchErrorAborts ==
    (Returned /\ ~NoFetchError) =>
        /\ snapshot.kind = "error"
        /\ snapshot.error
        /\ snapshot.message[2] = "API error"

\* C2: for every non-error fetch result, whatever fields of the wellness
\* and activity records are missing or null, build_latest_snapshot returns
\* a document: nothing is raised to the caller.
C2_NoFailureEscapes ==
    (Returned /\ NoFetchError) => snapshot.kind = "document"

\* The derived-metrics entries of the metrics other than recovery_index.
OtherMetricKeys ==
    {"acwr", "monotony", "strain", "polarization_index_7d", "seiler_tid_7d",
     "polarization_index_28d", "seiler_tid_28d", "tid_drift", "tid_comparison",
     "durability_7d", "durability_28d", "phase_detected", "phase_interpretation"}

\* The wellness lists that differ from the given one only in the HRV and
\* resting-HR fields of today's record.
HrvRhrVariants(wellness_data) ==
    {[i \in 1..Len(wellness_data) |->
        IF wellness_data[i].id = Today
        THEN [wellness_data[i] EXCEPT !.hrv = hrv, !.hrvRMSSD = rmssd,
                                      !.restingHR = rhr]
        ELSE wellness_data[i]] :
     hrv \in TodayFieldValues("hrv"), rmssd \in TodayFieldValues("hrvRMSSD"),
     rhr \in TodayFieldValues("restingHR")}

SnapshotOf(wellness_data) ==
    build_latest_snapshot(activities_result, ListResult(wellness_data),
                          events_result, DefaultDays, DefaultExtendedDays, Today)

\* C3: two inputs that differ only in today's HRV and resting-HR fields
\* yield the same outcome with identical derived-metrics entries for every
\* metric other than recovery_index.
C3_IndependentOfHrvRhr ==
    (Returned /\ NoFetchError) =>
        \A other \in HrvRhrVariants(wellness_result.items) :
            /\ SnapshotOf(other).kind = snapshot.kind
            /\ snapshot.kind = "document" =>
                  \A k \in OtherMetricKeys :
                      SnapshotOf(other).derived_metrics[k]
                          = snapshot.derived_metrics[k]

\* The inputs of the metrics of a returned document.
SnapshotWellness == TodayWellness(wellness_result.items, Today)

SnapshotLoads ==
    SelectSeq(DailyLoads(wellness_result.items, Today - DefaultDays, Today), IsPositive)

ThresholdTime(acts) ==
    LET zone_times == aggregate_zone_times(acts).totals
    IN  zone_times[3] + zone_times[4]

SnapshotActivities7d ==
    LET InWindow(a) == a.start_date_local.t = "num"
                       /\ a.start_date_local.v >= Today - DefaultDays
    IN  SelectSeq(activities_result.items, InWindow)

\* C10: in the derived-metrics map of a snapshot, monotony and strain with
\* fewer than 2 nonzero loads, a polarization index with zero time in zones
\* 3-4, acwr with zero or missing CTL are not numbers: they are absent, or
\* null with an error note.
C10_NotComputableIsNotNumeric ==
    (Returned /\ snapshot.kind = "document") =>
        LET dm == snapshot.derived_metrics
        IN  /\ Len(SnapshotLoads) < 2 =>
                  /\ dm.monotony.t # "num"
                  /\ dm.strain.t # "num"
            /\ ThresholdTime(SnapshotActivities7d) = 0 =>
                  dm.polarization_index_7d.t # "num"
            /\ ThresholdTime(activities_result.items) = 0 =>
                  dm.polarization_index_28d.t # "num"
            /\ ~Truthy(SnapshotWellness.ctl) => dm.acwr.t # "num"
            /\ dm.monotony.t = "none" => dm.load_metrics_error.t = "str"
            /\ dm.acwr.t = "none" => dm.acwr_error.t = "str"

HasAlert(category, severity) ==
    \E i \in 1..Len(snapshot.alerts) :
        /\ snapshot.alerts[i].category = category
        /\ snapshot.alerts[i].severity = severity

\* C11: whenever the 7-day aggregate durability of a snapshot has a mean
\* absolute decoupling greater than 10, the alerts of that snapshot contain
\* a durability warning.
C11_DurabilityWarning ==
    (Returned /\ snapshot.kind = "document") =>
        LET mean_decoupling == snapshot.derived_metrics.durability_7d.mean_decoupling
        IN  (mean_decoupling.t = "num" /\ RGt(mean_decoupling.v, <<10, 1>>))
                => HasAlert("durability", "warning")

\* A wellness record with CTL and ATL and no directly supplied TSB.
LacksTsb(w) == w.ctl.t = "num" /\ w.atl.t = "num" /\ w.tsb.t # "num"

SnapshotLastWellness == LastN(wellness_result.items, 7)

\* C12: for a wellness record that has CTL and ATL but no directly supplied
\* TSB, the snapshot reports and uses TSB = CTL - ATL: in
\* current_status.fitness, in the phase classification and in the wellness
\* list.
C12_TsbIsCtlMinusAtl ==
    (Returned /\ snapshot.kind = "document") =>
        /\ LacksTsb(SnapshotWellness) =>
              LET ctl == SnapshotWellness.ctl.v
                  atl == SnapshotWellness.atl.v
              IN  /\ snapshot.current_status.fitness.tsb = Round(<<ctl - atl, 1>>, 1)
                  /\ snapshot.derived_metrics.phase_detected.t = "str" =>
                        snapshot.derived_metrics.phase_detected.v
                            = detect_training_phase(ctl, atl, ctl - atl, None)
        /\ \A i \in 1..Len(SnapshotLastWellness) :
              LacksTsb(SnapshotLastWellness[i]) =>
                  snapshot.wellness_data[i].tsb
                      = Num(SnapshotLastWellness[i].ctl.v - SnapshotLastWellness[i].atl.v)

----------------------------------------------------------------------------
(* Claims about the pure calculators *)

\* An activity of at least 60 minutes with a present, non-null decoupling
\* value, its own or the precomputed one.
Qualifies(activity) ==
    /\ activity.moving_time.t = "num"
    /\ activity.moving_time.v >= 3600
    /\ activity.decoupling.t = "num" \/ activity.pw_hr_decoupling.t = "num"

QualifyingValue(activity) ==
    IF activity.decoupling.t = "num" THEN Abs(activity.decoupling.v)
    ELSE Abs(activity.pw_hr_decoupling.v)

QualifyingValues(acts) ==
    LET qualifying == SelectSeq(acts, Qualifies)
    IN  [i \in 1..Len(qualifying) |-> QualifyingValue(qualifying[i])]

\* Where an activity holds both values the claim does not say which one
\* enters the mean; mean and label are compared on the other inputs.
OneValueEach(acts) ==
    \A i \in 1..Len(acts) :
        ~(acts[i].decoupling.t = "num" /\ acts[i].pw_hr_decoupling.t = "num")

\* C13: calculate_aggregate_durability counts exactly the activities of at
\* least 60 minutes with a present decoupling value (own or precomputed),
\* reports the mean of their absolute values with the label of the 5 and 10
\* thresholds, and reports mean None, count 0 and the insufficient-data
\* label when none qualify.
C13_AggregateDurability ==
    pc = "return" =>
        LET values == QualifyingValues(durability_args.activities)
            mean == <<SumSeq(values), Len(values)>>
        IN  IF values = <<>>
            THEN /\ durability_ret.mean_decoupling = RNone
                 /\ durability_ret.activities_analyzed = 0
                 /\ durability_ret.interpretation
                        = "Insufficient data for durability assessment"
            ELSE /\ durability_ret.activities_analyzed = Len(values)
                 /\ OneValueEach(durability_args.activities) =>
                       /\ durability_ret.mean_decoupling = RNum(Round(mean, 1))
                       /\ durability_ret.interpretation =
                              IF RLt(mean, <<5, 1>>)
                              THEN "Excellent aerobic durability"
                              ELSE IF RLt(mean, <<10, 1>>)
                              THEN "Good aerobic durability"
                              ELSE "Poor aerobic durability - focus on base building"

\* The percentage of a zone in an argument of detect_tid_drift.
Pct(tid, zone) == tid.v[zone][1]

TidMaxAbsDiff(a, b) ==
    LET diffs == {Abs(Pct(a, zone) - Pct(b, zone)) : zone \in {"Z1", "Z2", "Z3"}}
    IN  CHOOSE m \in diffs : \A x \in diffs : x <= m

\* C14: detect_tid_drift returns insufficient_data if either distribution is
\* absent or empty; otherwise acute_depolarization exactly when the signed Z2
\* difference (7-day minus 28-day) exceeds 15; otherwise shifting exactly
\* when the largest absolute difference over Z1, Z2, Z3 exceeds 15; otherwise
\* consistent.  7-day {60, 10, 30} against 28-day {75, 20, 5} gives shifting.
C14_TidDrift ==
    pc = "return" =>
        LET a == tid_args.tid_7d
            b == tid_args.tid_28d
        IN  /\ tid_ret =
                  IF a.t # "dict" \/ b.t # "dict" THEN "insufficient_data"
                  ELSE IF Pct(a, "Z2") - Pct(b, "Z2") > 15 THEN "acute_depolarization"
                  ELSE IF TidMaxAbsDiff(a, b) > 15 THEN "shifting"
                  ELSE "consistent"
            /\ (a = TidDict(Tid(60, 10, 30)) /\ b = TidDict(Tid(75, 20, 5)))
                  => tid_ret = "shifting"

\* A Z2 difference of exactly 15 with no larger difference has been
\* classified, and so has the example of the claim.
C14_Witness ==
    /\ pc = "return"
    /\ tid_args.tid_7d.t = "dict" /\ tid_args.tid_28d.t = "dict"
    /\ Pct(tid_args.tid_7d, "Z2") - Pct(tid_args.tid_28d, "Z2") = 15
    /\ TidMaxAbsDiff(tid_args.tid_7d, tid_args.tid_28d) = 15
    /\ tid_ret = "consistent"

\* The calendar day after a date.
NextDay(date) ==
    IF date[3] < DaysInMonth(date[1], date[2]) THEN <<date[1], date[2], date[3] + 1>>
    ELSE IF date[2] < 12 THEN <<date[1], date[2] + 1, 1>>
    ELSE <<date[1] + 1, 1, 1>>

HasActivityOn(acts, date_str) ==
    \E i \in 1..Len(acts) :
        acts[i].start_date_local.t = "str" /\ acts[i].start_date_local.v = date_str

\* C15: build_daily_tier with days = 90 returns exactly 90 entries for any
\* activities and wellness input: the dates increase by exactly one calendar
\* day from entry to entry, the last entry is dated today, and a day without
\* activity has tss 0 and activities_count 0.
C15_NinetyDailyEntries ==
    (pc = "return" /\ tier_args.days = 90) =>
        LET entries == tier_ret.entries
        IN  /\ tier_ret.kind = "list"
            /\ Len(entries) = 90
            /\ \A k \in 1..89 : entries[k + 1].date = NextDay(entries[k].date)
            /\ entries[90].date = strftime(tier_args.now)
            /\ \A k \in 1..90 :
                  ~HasActivityOn(tier_args.activities, entries[k].date) =>
                      entries[k].tss = 0 /\ entries[k].activities_count = 0

\* The three fetches returned empty lists, without an error signal.
EmptyResults ==
    /\ activities_result = ListResult(<<>>)
    /\ wellness_result = ListResult(<<>>)
    /\ events_result = ListResult(<<>>)

SnapshotSections ==
    {"READ_THIS_FIRST", "metadata", "alerts", "current_status", "derived_metrics",
     "recent_activities", "wellness_data", "planned_workouts"}

\* C16: when the data source returns no activities, no wellness records and
\* no events, without an error signal, build_latest_snapshot returns a
\* document with all eight top-level sections, not an error signal.
C16_EmptyIsNotFailure ==
    (Returned /\ EmptyResults) =>
        /\ snapshot.kind = "document"
        /\ DOMAIN snapshot = SnapshotSections \cup {"kind"}

\* A build whose three fetches returned empty lists has returned.
C16_Witness ==
    /\ Returned
    /\ EmptyResults
    /\ snapshot.kind = "document"
    /\ snapshot.recent_activities = <<>>
    /\ snapshot.alerts = <<>>

\* The lists of a document against the lists that were fetched: the length
\* is the limit or the whole list, every entry shown was fetched, and a
\* fetched record that ranks before an entry shown is shown too.
Least(a, b) == IF a < b THEN a ELSE b

InPrimaryWindow(a) ==
    a.start_date_local.t = "num" /\ a.start_date_local.v >= Today - DefaultDays

LatestActivitiesShown ==
    LET fetched == SelectSeq(activities_result.items, InPrimaryWindow)
        shown == snapshot.recent_activities
    IN  /\ Len(shown) = Least(Len(fetched), RecentActivitiesShown)
        /\ \A i \in 1..Len(shown) : \E j \in 1..Len(fetched) :
               shown[i] = RecentActivity(fetched[j])
        /\ \A i \in 1..Len(shown), j \in 1..Len(fetched) :
               fetched[j].start_date_local.v > shown[i].start_date.v =>
                   \E k \in 1..Len(shown) : shown[k] = RecentActivity(fetched[j])

LatestWellnessShown ==
    LET fetched == wellness_result.items
        shown == snapshot.wellness_data
    IN  /\ Len(shown) = Least(Len(fetched), WellnessDaysShown)
        /\ \A i \in 1..Len(shown) : \E j \in 1..Len(fetched) :
               shown[i].date = fetched[j].id
        /\ \A i \in 1..Len(shown), j \in 1..Len(fetched) :
               fetched[j].id > shown[i].date =>
                   \E k \in 1..Len(shown) : shown[k].date = fetched[j].id

EarliestWorkoutsShown ==
    LET fetched == SelectSeq(events_result.items, IsWorkout)
        shown == snapshot.planned_workouts
    IN  /\ Len(shown) = Least(Len(fetched), PlannedWorkoutsShown)
        /\ \A i \in 1..Len(shown) : \E j \in 1..Len(fetched) :
               shown[i] = PlannedWorkout(fetched[j])
        /\ \A i \in 1..Len(shown), j \in 1..Len(fetched) :
               fetched[j].start_date_local < shown[i].start_date =>
                   \E k \in 1..Len(shown) : shown[k] = PlannedWorkout(fetched[j])

\* C17: in every document, recent_activities holds the (at most 10)
\* activities of the primary window with the latest start dates, wellness_data
\* the (at most 7) wellness records with the latest dates, and
\* planned_workouts the (at most 5) earliest events of category WORKOUT, in
\* whatever order the endpoints returned their lists.
C17_LatestRecordsShown ==
    (Returned /\ snapshot.kind = "document") =>
        LatestActivitiesShown /\ LatestWellnessShown /\ EarliestWorkoutsShown

----------------------------------------------------------------------------
(* Claims about interleaved builds *)

\* What the fetches of a build return when it runs alone: its own athlete's
\* lists, or the error signal where its fetch failed.
FetchedAlone(result, items) == IF result.error THEN ErrorResult ELSE ListResult(items)

RunAlone(build) ==
    Document([build EXCEPT
        !.activities_result = FetchedAlone(build.activities_result,
                                           build.request.athlete.activities),
        !.wellness_result = FetchedAlone(build.wellness_result,
                                         build.request.athlete.wellness),
        !.events_result = IF build.request.kind = "snapshot"
                          THEN FetchedAlone(build.events_result,
                                            build.request.athlete.events)
                          ELSE NotFetched])

DifferentRequests == builds[1].request # builds[2].request

\* C18: two builds (snapshot or history) for different athletes or windows,
\* interleaved at their fetches, each return the document the build returns
\* when it runs alone.
C18_BuildsIndependent ==
    (pc = "builds" /\ DifferentRequests) =>
        \A p \in Builders :
            builds[p].pc = "return" => builds[p].document = RunAlone(builds[p])

\* Both builds have returned documents after fetching in turns, one a
\* snapshot and one a history.
C18_Witness ==
    /\ pc = "builds"
    /\ DifferentRequests
    /\ interleaved
    /\ \A p \in Builders :
          builds[p].pc = "return" /\ builds[p].document.kind = "document"
    /\ builds[1].request.kind = "snapshot"
    /\ builds[2].request.kind = "history"

----------------------------------------------------------------------------
(* Claims about the ratio calculators *)

\* The degenerate input of each calculator.
NonzeroLoads(daily_loads) == SelectSeq(daily_loads, IsPositive)

Degenerate(call) ==
    CASE call.fn = "calculate_rolling_average" ->
             \A i \in 1..Len(call.data) : call.data[i][call.field].t # "num"
      [] call.fn = "calculate_acwr" -> call.ctl = 0 \/ call.atl = 0
      [] call.fn = "calculate_recovery_index" ->
             \/ call.hrv_baseline[1] = 0
             \/ call.rhr_baseline[1] = 0
             \/ call.rhr_today = 0
      [] call.fn = "calculate_monotony" ->
             LET loads == NonzeroLoads(call.daily_loads)
             IN  \/ Len(loads) < 2
                 \/ \A i, j \in 1..Len(loads) : loads[i] = loads[j]
      [] call.fn = "calculate_load_recovery_ratio" -> call.recovery_index[1] = 0
      [] call.fn = "calculate_consistency_index" -> call.sessions_planned = 0
      [] call.fn = "calculate_efficiency_factor" -> call.average_hr = 0
      [] call.fn = "calculate_variability_index" -> call.average_power = 0
      [] call.fn = "calculate_polarization_index" ->
             call.zone_times[3] + call.zone_times[4] = 0
      [] OTHER -> FALSE

\* The return value 0.0; monotony is carried as the root of a rational.
IsZero(call, ret) ==
    IF call.fn = "calculate_monotony" THEN ret = Surd(<<0, 1>>) ELSE ret = <<0, 1>>

Raised(call, ret) == call.fn # "calculate_monotony" /\ ret = ZeroDivisionError

\* C19: no calculator raises, and each returns exactly 0.0 on its degenerate
\* input: rolling average on empty input or an all-null field, ACWR when ctl
\* or atl is 0, recovery index when a baseline or today's resting HR is 0,
\* monotony with fewer than 2 nonzero loads or zero standard deviation, and
\* the other ratios when their denominator is 0.
C19_TotalAndZeroOnDegenerate ==
    pc = "return" =>
        /\ ~Raised(calculator_call, calculator_ret)
        /\ Degenerate(calculator_call) => IsZero(calculator_call, calculator_ret)

\* The efficiency factor of 200 W at an average heart rate of 0 has returned.
C19_Witness ==
    /\ pc = "return"
    /\ calculator_call.fn = "calculate_efficiency_factor"
    /\ calculator_call.normalized_power = 200
    /\ calculator_call.average_hr = 0
    /\ calculator_ret = <<0, 1>>

----------------------------------------------------------------------------
(* Claims about calculate_decoupling *)

FirstHalfUnusable(power_stream, hr_stream) ==
    \A i \in 1..(Len(power_stream) \div 2) :
        ~(power_stream[i] > 0 /\ hr_stream[i] > 0)

NoDecouplingExpected(power_stream, hr_stream) ==
    \/ Len(power_stream) < MinSamples
    \/ power_stream = <<>>
    \/ hr_stream = <<>>
    \/ Len(power_stream) # Len(hr_stream)
    \/ FirstHalfUnusable(power_stream, hr_stream)

\* C20: calculate_decoupling returns (0.0, 0.0, 0.0) whenever the streams
\* have fewer than 3600 samples, whatever they hold, and also when a stream
\* is empty, the lengths differ, or the first half has no sample with both
\* power and heart rate positive.
C20_NoDecoupling ==
    (pc = "return" /\ NoDecouplingExpected(decoupling_args.power_stream,
                                           decoupling_args.hr_stream))
        => decoupling_ret = NoDecoupling

\* 3599 samples of 200 W at 140 bpm, then 150 bpm: decoupled by content,
\* one sample short.
C20_Witness ==
    /\ pc = "return"
    /\ decoupling_args.power_stream = Halves(MinSamples - 1, 200, 200)
    /\ decoupling_args.hr_stream = Halves(MinSamples - 1, 140, 150)
    /\ decoupling_ret = NoDecoupling

\* The daily loads that enter monotony and strain (line 154) and the dates
\* of the wellness records they come from.
SnapshotDailyLoads == DailyLoads(wellness_result.items, Today - DefaultDays, Today)

LoadDates ==
    {wellness_result.items[i].id : i \in
        {j \in 1..Len(wellness_result.items) :
            /\ wellness_result.items[j].id >= Today - DefaultDays
            /\ wellness_result.items[j].id <= Today}}

OneRecordPerDate ==
    \A i, j \in 1..Len(wellness_result.items) :
        i # j => wellness_result.items[i].id # wellness_result.items[j].id

\* The 7 calendar days that end today.
LastSevenDays == (Today - DefaultDays + 1)..Today

\* C21: with days = 7 and one wellness record per date, the daily loads of
\* monotony and strain cover at most 7 calendar days, and the activities
\* counted in activities_count_7d (the set behind the 7-day zone
\* distribution and durability) all start within those 7 days.
C21_SevenDayWindow ==
    (Returned /\ snapshot.kind = "document" /\ OneRecordPerDate) =>
        /\ Len(SnapshotDailyLoads) <= DefaultDays
        /\ Cardinality(LoadDates) <= DefaultDays
        /\ LoadDates \subseteq LastSevenDays
        /\ snapshot.metadata.activities_count_7d = Len(SnapshotActivities7d)
        /\ \A i \in 1..Len(SnapshotActivities7d) :
               SnapshotActivities7d[i].start_date_local.v \in LastSevenDays

----------------------------------------------------------------------------
(* Claims about the scans of the history builder *)

HistoryReturned(fn) == pc = "return" /\ history_call.fn = fn

\* The days of the series that carry CTL and ATL, in order.
ClassifiedDays == SelectSeq(history_call.wellness, Classified)

\* The classified days that open a maximal run of equally classified days.
RunStarts ==
    {i \in 1..Len(ClassifiedDays) :
        i = 1 \/ EntryPhase(ClassifiedDays[i]) # EntryPhase(ClassifiedDays[i - 1])}

\* The number of the run that the run start i opens.
RunRank(i) == Cardinality({j \in RunStarts : j <= i})

\* C22: over date-ordered wellness detect_phase_markers returns one marker
\* per maximal run of equally classified days: as many markers as runs, the
\* k-th marker starting at the first day of the k-th run with that run's
\* phase (days without CTL or ATL are skipped and break no run), start dates
\* ascending, consecutive markers of different phases, and the last marker
\* ending at the last wellness date.
C22_OneMarkerPerRun ==
    HistoryReturned("detect_phase_markers") =>
        LET wellness == history_call.wellness
            markers == history_ret
        IN  /\ Len(markers) = Cardinality(RunStarts)
            /\ \A i \in RunStarts :
                  /\ markers[RunRank(i)].start_date = ClassifiedDays[i].id
                  /\ markers[RunRank(i)].phase = EntryPhase(ClassifiedDays[i])
            /\ \A k \in 1..(Len(markers) - 1) :
                  /\ markers[k].phase # markers[k + 1].phase
                  /\ SortKey(markers[k].start_date) < SortKey(markers[k + 1].start_date)
            /\ markers # <<>> =>
                  markers[Len(markers)].end_date = wellness[Len(wellness)].id

\* A series of four days whose second day has no CTL: three classified days
\* in two runs.
C22_Witness ==
    /\ HistoryReturned("detect_phase_markers")
    /\ Len(history_call.wellness) = 4
    /\ ~Classified(history_call.wellness[2])
    /\ Len(ClassifiedDays) = 3
    /\ Len(history_ret) = 2

\* C23: every classified wellness day dated from a marker's start date to
\* its end date, both inclusive, is classified with the marker's phase.
C23_MarkerCoversOwnPhase ==
    HistoryReturned("detect_phase_markers") =>
        \A k \in 1..Len(history_ret) : \A i \in 1..Len(history_call.wellness) :
            LET marker == history_ret[k]
                entry == history_call.wellness[i]
            IN  (/\ Classified(entry)
                 /\ SortKey(marker.start_date) <= SortKey(entry.id)
                 /\ SortKey(entry.id) <= SortKey(marker.end_date))
                => EntryPhase(entry) = marker.phase

\* The records of the series that carry an FTP, in order.
CarriesFtp(entry) == entry.sportInfo.t # "list" /\ Truthy(RideFtp(entry))
FtpDays == SelectSeq(history_call.wellness, CarriesFtp)

\* The FTP-carrying records whose FTP differs from the FTP-carrying record
\* before them.
FtpChangePoints ==
    {i \in 1..Len(FtpDays) : i = 1 \/ RideFtp(FtpDays[i]) # RideFtp(FtpDays[i - 1])}

ChangeRank(i) == Cardinality({j \in FtpChangePoints : j <= i})

\* C24: over date-ordered wellness extract_ftp_timeline emits exactly the
\* records whose FTP differs from the last emitted FTP: one entry per change
\* point of the FTP-carrying records, with that record's date and FTP, the
\* first entry being the first record with an FTP; no two consecutive entries
\* share an FTP, and the last entry's FTP is the FTP of the latest record
\* that has one.
C24_FtpChangePoints ==
    HistoryReturned("extract_ftp_timeline") =>
        LET timeline == history_ret
        IN  /\ Len(timeline) = Cardinality(FtpChangePoints)
            /\ \A i \in FtpChangePoints :
                  /\ timeline[ChangeRank(i)].date = FtpDays[i].id
                  /\ timeline[ChangeRank(i)].ftp = RideFtp(FtpDays[i]).v
            /\ \A k \in 1..(Len(timeline) - 1) : timeline[k].ftp # timeline[k + 1].ftp
            /\ FtpDays # <<>> =>
                  timeline[Len(timeline)].ftp = RideFtp(FtpDays[Len(FtpDays)]).v

\* Four days: 250 W, a day without ride info, 250 W again, then 260 W.
C24_Witness ==
    /\ HistoryReturned("extract_ftp_timeline")
    /\ Len(history_call.wellness) = 4
    /\ ~CarriesFtp(history_call.wellness[2])
    /\ Len(FtpDays) = 3
    /\ RideFtp(FtpDays[1]) = RideFtp(FtpDays[2])
    /\ Len(history_ret) = 2

\* The days of the window on which an activity of the call started.
ActivityDays ==
    {day \in GapWindowStart..GapWindowEnd :
        \E i \in 1..Len(history_call.activities) :
            history_call.activities[i].start_date_local = DateStr(day)}

\* The window start, the activity days and the window end; a span is a pair
\* of neighbouring points more than 7 days apart.
GapPoints == ActivityDays \cup {GapWindowStart, GapWindowEnd}

LongSpans ==
    {span \in GapPoints \X GapPoints :
        /\ span[2] - span[1] > 7
        /\ ~\E day \in GapPoints : span[1] < day /\ day < span[2]}

\* C25: for a non-empty activity list detect_data_gaps reports, in
\* chronological order, exactly the spans of more than 7 days between the
\* window start, the consecutive activity dates and the window end, each with
\* days = end - start; a span of 7 days or less is not reported.
C25_GapsAreTheLongSpans ==
    (HistoryReturned("detect_data_gaps") /\ history_call.activities # <<>>) =>
        LET gaps == history_ret
        IN  /\ Len(gaps) = Cardinality(LongSpans)
            /\ \A k \in 1..Len(gaps) :
                  /\ \E span \in LongSpans :
                        /\ gaps[k].start_date = strftime(span[1])
                        /\ gaps[k].end_date = strftime(span[2])
                        /\ gaps[k].days = span[2] - span[1]
                  /\ gaps[k].days > 7
            /\ \A k \in 1..(Len(gaps) - 1) :
                  fromisoformat(gaps[k].start_date) < fromisoformat(gaps[k + 1].start_date)

\* An activity 8 days after the window start and one 7 days later: the span
\* before the first and the span after the second are reported, the span of
\* exactly 7 days between them is not.
C25_Witness ==
    /\ HistoryReturned("detect_data_gaps")
    /\ ActivityDays = {GapWindowStart + 8, GapWindowStart + 15}
    /\ Len(history_ret) = 2
    /\ history_ret[1].days = 8
    /\ history_ret[2].start_date = strftime(GapWindowStart + 15)

\* C28: after detect_data_gaps every stretch of more than 7 consecutive days
\* of the window without an activity lies inside a reported gap, for every
\* activity list including the empty one.
C28_EveryLongStretchReported ==
    HistoryReturned("detect_data_gaps") =>
        \A first, last \in GapWindowStart..GapWindowEnd :
            (/\ last - first + 1 > 7
             /\ ActivityDays \cap (first..last) = {})
            => \E k \in 1..Len(history_ret) :
                  /\ fromisoformat(history_ret[k].start_date) <= first
                  /\ last <= fromisoformat(history_ret[k].end_date)

\* C26: a snapshot whose 7-day activities have zero time in zones 3-4 carries
\* no alert on the metric polarization_index_7d (the threshold-heavy warning).
C26_NoThresholdHeavyWithoutThreshold ==
    (Returned /\ snapshot.kind = "document") =>
        (ThresholdTime(SnapshotActivities7d) = 0 =>
            ~\E i \in 1..Len(snapshot.alerts) :
                snapshot.alerts[i].metric = "polarization_index_7d")

----------------------------------------------------------------------------
(* Claims about the weekly and monthly tiers *)

\* The number of activities of the call that started from day first to day
\* last.
StartedWithin(first, last) ==
    Cardinality({i \in 1..Len(history_call.activities) :
                    LET start == history_call.activities[i].start_date_local
                    IN  /\ start.t = "str"
                        /\ first <= fromisoformat(start.v)
                        /\ fromisoformat(start.v) <= last})

RECURSIVE SumCounts(_)
SumCounts(entries) ==
    IF entries = <<>> THEN 0 ELSE entries[1].activities_count + SumCounts(Tail(entries))

\* n buckets of the given length in days that end on history_call.now, with
\* the entries returned for them.
BucketsPartition(entries, n, length) ==
    LET now == history_call.now
        First(k) == BucketStart(now, n, k - 1, length)
        Last(k) == BucketEnd(now, n, k - 1, length)
    IN  /\ Len(entries) = n
        /\ \A k \in 1..n : Last(k) - First(k) + 1 = length
        /\ \A k \in 1..(n - 1) : First(k + 1) = Last(k) + 1
        /\ Last(n) = now
        /\ \A k \in 1..n : entries[k].activities_count = StartedWithin(First(k), Last(k))
        /\ SumCounts(entries) = StartedWithin(First(1), now)

\* C30: the buckets of build_weekly_tier (7 days each) and of
\* build_monthly_tier (30 days each) are ascending, contiguous and
\* non-overlapping and the last one ends today; each entry counts the
\* activities of its own bucket, and the counts of a tier add up to the
\* number of activities dated within the span the buckets cover.
C30_BucketsPartitionTheSpan ==
    /\ (HistoryReturned("build_weekly_tier") /\ history_ret.kind = "list") =>
          LET weeks == history_call.days \div 7
          IN  /\ BucketsPartition(history_ret.entries, weeks, 7)
              /\ \A k \in 1..weeks :
                    /\ history_ret.entries[k].week_start
                           = strftime(BucketStart(history_call.now, weeks, k - 1, 7))
                    /\ history_ret.entries[k].week_end
                           = strftime(BucketEnd(history_call.now, weeks, k - 1, 7))
    /\ (HistoryReturned("build_monthly_tier") /\ history_ret.kind = "list") =>
          LET months == history_call.days \div 30
          IN  /\ BucketsPartition(history_ret.entries, months, 30)
              /\ \A k \in 1..months :
                    history_ret.entries[k].month
                        = SubSeq(strftime(BucketStart(history_call.now, months, k - 1, 30)),
                                 1, 2)

\* A weekly tier with one activity on the first day of the last week and one
\* on the last day of the week before.
C30_Witness ==
    /\ HistoryReturned("build_weekly_tier")
    /\ history_ret.kind = "list"
    /\ Len(history_ret.entries) = 25
    /\ history_ret.entries[25].activities_count = 1
    /\ history_ret.entries[24].activities_count = 1
    /\ history_ret.entries[25].week_end = strftime(history_call.now)

----------------------------------------------------------------------------
(* Claims about the phases the builders report *)

\* The phases reachable without a CTL of 7 days ago.
UntrendedPhases == {"Recovery", "Peak", "Base", "Build"}

\* An optional phase label is missing or one of the untrended phases.
Untrended(phase) == phase.t = "str" => phase.v \in UntrendedPhases

----------------------------------------------------------------------------
(* Claims about the dates of one history document *)

HistoryDocumentReturned == pc = "return" /\ history_build.document.kind = "document"

\* C29: all parts of a history document are anchored to one day: the date of
\* the last daily entry and the end of the last weekly bucket equal
\* metadata.snapshot_date, which is the end of the fetch window, and the last
\* bucket of the one-year monthly tier starts 29 days before that date, also
\* when midnight passes while the build is suspended in a fetch.
C29_OneAnchorDay ==
    HistoryDocumentReturned =>
        LET document == history_build.document
            snapshot_date == document.metadata.snapshot_date
        IN  /\ snapshot_date = history_build.params.newest
            /\ document.tier_90d[Len(document.tier_90d)].date = snapshot_date
            /\ document.tier_180d[Len(document.tier_180d)].week_end = snapshot_date
            /\ document.tier_1y[Len(document.tier_1y)].month
                   = SubSeq(strftime(fromisoformat(snapshot_date) - 29), 1, 2)

====
